---------------------------- MODULE Spec2Model ----------------------------
(***************************************************************************)
(* Model of the binary readers of dragons/nbody/io.py:                     *)
(*   read_grid          (one file holding a sequence of named 3D grids)    *)
(*   read_halo_catalog  (a halo catalog split over shard files)            *)
(* Files are byte sequences (grid) or item sequences with a byte length    *)
(* (catalog); numpy.fromfile returns only the whole items that are         *)
(* available and raises nothing on a short read.                           *)
(***************************************************************************)
EXTENDS Integers, Sequences, FiniteSets, TLC

(***************************************************************************)
(* Bounds of the model.                                                    *)
(***************************************************************************)
\* most grids stored in one grid file
MaxGrids == 2
\* largest cell count along one axis
MaxDim == 2
\* most identifier reads of one call that are followed
MaxIdentReads == 30

(***************************************************************************)
(* Sizes of the on-disk items, as the dtype strings of the source fix them *)
(***************************************************************************)
\* "i4" and "<f4": four bytes per item
Int32Bytes == 4
\* "f8": eight bytes per item
Float64Bytes == 8
\* "S32": the stored identifier
IdentBytes == 32
\* [:10]: the characters of the identifier that are compared
IdentChars == 10
\* the three axes of n_cell and of box_size_grid
NAxes == 3

Min(a, b) == IF a <= b THEN a ELSE b
Max(a, b) == IF a >= b THEN a ELSE b

(***************************************************************************)
(* Byte level helpers.                                                     *)
(***************************************************************************)
\* little-endian bytes of a 32-bit pattern, as the writer of the file lays it
EncodeLE32(v) ==
  << v % 256, (v \div 256) % 256, (v \div 65536) % 256, (v \div 16777216) % 256 >>

\* the 32-bit pattern numpy builds from four little-endian bytes
DecodeLE32(b) == b[1] + 256 * b[2] + 65536 * b[3] + 16777216 * b[4]

\* the signed value of an "i4" item: two's complement of the 32-bit pattern
DecodeI32(b) ==
  IF b[4] >= 128
  THEN b[1] + 256 * b[2] + 65536 * b[3] + 16777216 * (b[4] - 256)
  ELSE DecodeLE32(b)

RECURSIVE Concat(_)
Concat(ss) == IF ss = << >> THEN << >> ELSE Head(ss) \o Concat(Tail(ss))

RECURSIVE Product(_)
Product(s) == IF s = << >> THEN 1 ELSE Head(s) * Product(Tail(s))

\* number of whole items numpy.fromfile returns: it stops at end of file and
\* drops a trailing fragment shorter than one item
\* a negative count asks for all the items that are left
FromFileCount(flen, pos, itemsize, count) ==
  IF pos >= flen THEN 0
  ELSE IF count < 0 THEN (flen - pos) \div itemsize
  ELSE Min(count, (flen - pos) \div itemsize)

\* the items themselves, each as its bytes
FromFile(bytes, pos, itemsize, count) ==
  [ i \in 1..FromFileCount(Len(bytes), pos, itemsize, count) |->
      SubSeq(bytes, pos + (i - 1) * itemsize + 1, pos + i * itemsize) ]

\* file position after the read: the bytes consumed, the fragment included
PosAfterRead(flen, pos, itemsize, count) ==
  IF count < 0 THEN Max(pos, flen) ELSE Max(pos, Min(flen, pos + count * itemsize))

\* numpy's S32 scalar: trailing NUL bytes are not part of the value
RECURSIVE StripNul(_)
StripNul(b) ==
  IF b = << >> THEN << >>
  ELSE IF b[Len(b)] = 0 THEN StripNul(SubSeq(b, 1, Len(b) - 1)) ELSE b

\* [:10] of a bytes value
FirstCharsWhole(b) == b
FirstChars(b) == SubSeq(b, 1, Min(Len(b), IdentChars))

\* .decode("ascii") fails on a byte above 127
IsAscii(b) == \A i \in 1..Len(b) : b[i] < 128

(***************************************************************************)
(* name_to_ident of read_grid; characters are their ASCII codes.           *)
(***************************************************************************)
RhoRDark == << 114, 104, 111, 95, 114, 95, 100, 97, 114, 107 >>
VxRDark  == << 118, 95, 120, 95, 114, 95, 100, 97, 114, 107 >>
VyRDark  == << 118, 95, 121, 95, 114, 95, 100, 97, 114, 107 >>
VzRDark  == << 118, 95, 122, 95, 114, 95, 100, 97, 114, 107 >>

KnownGridNames == { "density", "vx", "vy", "vz" }

NameToIdent(name) ==
  CASE name = "density" -> RhoRDark
    [] name = "vx" -> VxRDark
    [] name = "vy" -> VyRDark
    [] name = "vz" -> VzRDark

\* no value bound to the local variable ident
Unbound == << -1 >>

\* bytes to skip over the payload of a grid that is not the target
SkipBytesNoFactor(n_cell_total) == n_cell_total
SkipBytes(n_cell_total) == Int32Bytes * n_cell_total

\* position of element (i, j, k) of a C-ordered array of the given shape in
\* its flat value stream, counted from 0
FlatIndexFortran(shape, i, j, k) == (k * shape[2] + j) * shape[1] + i
FlatIndex(shape, i, j, k) == (i * shape[2] + j) * shape[3] + k

\* the product of the axes of a shape that are given: an axis of -1 is left
\* to be worked out from the size of the buffer
RECURSIVE KnownProduct(_)
KnownProduct(shape) ==
  IF shape = << >> THEN 1
  ELSE (IF Head(shape) = -1 THEN 1 ELSE Head(shape)) * KnownProduct(Tail(shape))

\* the shape an assignment of n_cell gives a buffer: the one axis of -1, if
\* any, becomes what the others leave of the size
ResolveShape(grid, n_cell) ==
  [ i \in 1..Len(n_cell) |->
      IF n_cell[i] = -1 /\ KnownProduct(n_cell) > 0
      THEN Len(grid) \div KnownProduct(n_cell) ELSE n_cell[i] ]

\* grid.shape = n_cell succeeds only when the sizes agree: no axis below -1,
\* at most one axis of -1, and the size is the product of the axes
ShapeFitsAlways(grid, n_cell) == TRUE
ShapeFits(grid, n_cell) ==
  /\ Len(n_cell) = NAxes
  /\ \A i \in 1..Len(n_cell) : n_cell[i] >= -1
  /\ Cardinality({ i \in 1..Len(n_cell) : n_cell[i] = -1 }) <= 1
  /\ Len(grid) = Product(ResolveShape(grid, n_cell))

(***************************************************************************)
(* The grid files the reader is run on.                                    *)
(***************************************************************************)
\* stored identifiers: the density grid, the x velocity grid, and a density
\* identifier that goes on after its tenth character ("rho_r_dark_2")
RhoRDarkLong == RhoRDark \o << 95, 50 >>
StoredIdents == { RhoRDark, VxRDark, RhoRDarkLong }

\* an identifier as stored: NUL-padded to 32 bytes
PadIdent(id) == id \o [ i \in 1..(IdentBytes - Len(id)) |-> 0 ]

\* the 32-bit pattern stored in cell c (from 0) of the g-th grid (from 1)
CellValue(g, c) == 16777216 * g + 256 * (c + 1) + (g + c)

Payload(g, cells) == [ c \in 1..cells |-> CellValue(g, c - 1) ]

EncodePayload(vals) == Concat([ i \in 1..Len(vals) |-> EncodeLE32(vals[i]) ])

\* i4[3] dims, f8[3] box size, i4 n_grids, i4 ma_scheme
EncodeHeader(dims, ngrids) ==
  Concat([ i \in 1..NAxes |-> EncodeLE32(dims[i]) ])
    \o [ i \in 1..(NAxes * Float64Bytes) |-> 64 ]
    \o EncodeLE32(ngrids) \o EncodeLE32(1)

HeaderBytes == NAxes * Int32Bytes + NAxes * Float64Bytes + 2 * Int32Bytes

EncodeGrid(id, vals) == PadIdent(id) \o EncodePayload(vals)

EncodeGridFile(dims, ngrids, ids) ==
  EncodeHeader(dims, ngrids)
    \o Concat([ g \in 1..Len(ids) |-> EncodeGrid(ids[g], Payload(g, Product(dims))) ])

\* a file whose header states the first axis with the wrong sign
Negated(dims) == [ i \in 1..NAxes |-> IF i = 1 THEN 0 - dims[i] ELSE dims[i] ]

EncodeGridFileNegated(dims, ngrids, ids) ==
  EncodeHeader(Negated(dims), ngrids)
    \o Concat([ g \in 1..Len(ids) |-> EncodeGrid(ids[g], Payload(g, Product(dims))) ])

GridBytes(dims) == IdentBytes + Int32Bytes * Product(dims)

\* lengths a file is cut to: inside the header when it holds no grid, else
\* inside its last grid (in the identifier, at its end, inside the first
\* value, before the last value)
CutLengths(dims, ngrids) ==
  IF ngrids = 0
  THEN { 0, 2, 8, 12, 20, 36, 38, 40, 42 }
  ELSE LET start == HeaderBytes + (ngrids - 1) * GridBytes(dims)
       IN  { start + 16, start + IdentBytes, start + IdentBytes + 2,
             start + GridBytes(dims) - Int32Bytes }

IdentSeqs == UNION { [ 1..n -> StoredIdents ] : n \in 0..MaxGrids }

Dims == [ 1..NAxes -> 1..MaxDim ]

VARIABLES
  \* ---- the call read_grid(fname, grid_name) and the file behind fname
  g_name,       \* grid_name
  g_file,       \* bytes of the file
  g_dims,       \* what the file was written with: dims,
  g_ngrids,     \*   the n_grids field,
  g_ids,        \*   the identifiers of the grids, in file order
  g_pc,         \* position of the call
  g_ident,      \* local ident
  g_open,       \* fin is open
  g_pos,        \* file position of fin
  g_n_cell,     \* local n_cell
  g_n_cell_total, \* local n_cell_total
  g_skip,       \* local skip
  g_grid,       \* local grid (flat value stream)
  g_shape,      \* grid.shape
  g_result,     \* the returned array, by index (i, j, k)
  g_error,      \* exception the call ended with
  g_logged,     \* logger.error was called
  g_opens,      \* number of times the file was opened
  g_identReads, \* number of identifier reads
  g_identAt,    \* file positions the identifier reads started at, in order
  g_seeks,      \* number of seeks over a payload
  g_payloadReads, \* number of payload reads
  g_short       \* some read returned fewer items than requested

gvars == << g_name, g_file, g_dims, g_ngrids, g_ids, g_pc, g_ident, g_open, g_pos,
            g_n_cell, g_n_cell_total, g_skip, g_grid, g_shape, g_result, g_error,
            g_logged, g_opens, g_identReads, g_identAt, g_seeks, g_payloadReads,
            g_short >>

VARIABLES
  \* ---- the call read_halo_catalog(catalog_loc) and the file system behind it
  fs_dir,       \* names of the entries of the catalog directory
  fs_files,     \* the shard file behind each entry
  c_arg,        \* the argument catalog_loc as passed
  c_pc,         \* position of the call
  c_loc,        \* local catalog_loc
  c_dirname,    \* local dirname
  c_halo,       \* local halo (the output buffer)
  c_n_halos,    \* local n_halos (the total, then the running offset)
  c_i,          \* index of the loop over catalog_loc
  c_fd,         \* path of the open shard, none when no handle is open
  c_handles,    \* paths of the file handles that are open, oldest first
  c_fdpos,      \* file position of fd
  c_n_halos_file, \* local n_halos_file
  c_error,      \* exception the call ended with
  c_result,     \* the returned array
  c_reads,      \* paths opened so far, in order
  c_short       \* some read returned fewer items than requested

cin == << fs_dir, fs_files, c_arg >>

cvars == << fs_dir, fs_files, c_arg, c_pc, c_loc, c_dirname, c_halo, c_n_halos, c_i,
            c_fd, c_handles, c_fdpos, c_n_halos_file, c_error, c_result, c_reads, c_short >>

VARIABLES
  \* ---- the call galaxy_history(fname, gal_id, snapshot, future_snapshot) and
  \* the master file behind it
  h_desc,       \* descendant indices, by snapshot and galaxy index
  h_fp,         \* first progenitor indices, by snapshot and galaxy index
  h_gal_id,     \* argument gal_id
  h_snapshot,   \* argument snapshot
  h_future_arg, \* argument future_snapshot as passed
  h_pc,         \* position of the call
  h_start_ind,  \* local start_ind
  h_future_snapshot, \* local future_snapshot
  h_merged_snapshot, \* local merged_snapshot
  h_history,    \* local history; history[s] is element s + 1
  h_ind,        \* local ind
  h_snap,       \* local snap of the loop being run
  h_error,      \* exception the call ended with
  h_result      \* what the call returned

hin == << h_desc, h_fp, h_gal_id, h_snapshot, h_future_arg >>

hvars == << h_desc, h_fp, h_gal_id, h_snapshot, h_future_arg, h_pc, h_start_ind,
            h_future_snapshot, h_merged_snapshot, h_history, h_ind, h_snap, h_error,
            h_result >>

VARIABLES
  \* ---- TreeFlags(header_file) and the call parse(num) on it
  t_lines,      \* the lines of the header file, each as its tokens
  t_n,          \* lines of the file consumed by the constructor
  t_flags,      \* self.flags, as its items in insertion order
  t_num,        \* argument num of parse
  t_pc,         \* position: in the constructor, constructed, parsed
  t_result,     \* the string parse returned
  t_error       \* exception the constructor ended with

tvars == << t_lines, t_n, t_flags, t_num, t_pc, t_result, t_error >>

VARIABLES
  \* ---- the call read_density_grid(fname) of the legacy ssimpl package and
  \* the file behind fname
  l_dims,       \* what the file was written with: dims,
  l_ids,        \*   the identifiers of the grids, in file order
  l_file,       \* bytes of the file
  l_pc,         \* position of the call
  l_pos,        \* file position of fin
  l_n_cell,     \* local n_cell
  l_n_grids,    \* local n_grids
  l_ident,      \* local ident
  l_grid,       \* local grid (flat value stream)
  l_i_grid,     \* local i_grid
  l_gridReads,  \* number of grids read (identifier and payload)
  l_error,      \* exception the call ended with
  l_result      \* the returned array, by index (i, j, k)

lvars == << l_dims, l_ids, l_file, l_pc, l_pos, l_n_cell, l_n_grids, l_ident, l_grid,
            l_i_grid, l_gridReads, l_error, l_result >>

vars == << gvars, cvars, hvars, tvars, lvars >>

\* the legacy reader is not called
LegacyIdle ==
  /\ l_dims = << >>
  /\ l_ids = << >>
  /\ l_file = << >>
  /\ l_pc = "idle"
  /\ l_pos = 0
  /\ l_n_cell = << >>
  /\ l_n_grids = 0
  /\ l_ident = << >>
  /\ l_grid = << >>
  /\ l_i_grid = 0
  /\ l_gridReads = 0
  /\ l_error = "none"
  /\ l_result = << >>

\* no TreeFlags object is made
FlagsIdle ==
  /\ t_lines = << >>
  /\ t_n = 0
  /\ t_flags = << >>
  /\ t_num = 0
  /\ t_pc = "idle"
  /\ t_result = << >>
  /\ t_error = "none"

\* galaxy_history is not called
HistIdle ==
  /\ h_desc = << >>
  /\ h_fp = << >>
  /\ h_gal_id = 0
  /\ h_snapshot = 0
  /\ h_future_arg = -1
  /\ h_pc = "idle"
  /\ h_start_ind = -1
  /\ h_future_snapshot = -1
  /\ h_merged_snapshot = -1
  /\ h_history = << >>
  /\ h_ind = -1
  /\ h_snap = -1
  /\ h_error = "none"
  /\ h_result = << >>

\* no path: the value of fd while no handle is open
NoPath == << >>

\* the grid reader is not called
GridIdle ==
  /\ g_name = "none"
  /\ g_file = << >>
  /\ g_dims = << >>
  /\ g_ngrids = 0
  /\ g_ids = << >>
  /\ g_pc = "idle"
  /\ g_ident = << >>
  /\ g_open = FALSE
  /\ g_pos = 0
  /\ g_n_cell = << >>
  /\ g_n_cell_total = 0
  /\ g_skip = TRUE
  /\ g_grid = << >>
  /\ g_shape = << >>
  /\ g_result = << >>
  /\ g_error = "none"
  /\ g_logged = FALSE
  /\ g_opens = 0
  /\ g_identReads = 0
  /\ g_identAt = << >>
  /\ g_seeks = 0
  /\ g_payloadReads = 0
  /\ g_short = FALSE

\* the catalog reader is not called
CatIdle ==
  /\ fs_dir = { }
  /\ fs_files = << >>
  /\ c_arg = << >>
  /\ c_pc = "idle"
  /\ c_loc = << >>
  /\ c_dirname = << >>
  /\ c_halo = << >>
  /\ c_n_halos = 0
  /\ c_i = 0
  /\ c_fd = NoPath
  /\ c_handles = << >>
  /\ c_fdpos = 0
  /\ c_n_halos_file = 0
  /\ c_error = "none"
  /\ c_result = << >>
  /\ c_reads = << >>
  /\ c_short = FALSE

GridNames == KnownGridNames \cup { "temperature" }

GridLocalsInit ==
  /\ g_pc = "start"
  /\ g_ident = Unbound
  /\ g_open = FALSE
  /\ g_pos = 0
  /\ g_n_cell = << >>
  /\ g_n_cell_total = 0
  /\ g_skip = TRUE
  /\ g_grid = << >>
  /\ g_shape = << >>
  /\ g_result = << >>
  /\ g_error = "none"
  /\ g_logged = FALSE
  /\ g_opens = 0
  /\ g_identReads = 0
  /\ g_identAt = << >>
  /\ g_seeks = 0
  /\ g_payloadReads = 0
  /\ g_short = FALSE

\* a call on a file written as the format says, whole, or with a header that
\* announces one grid more or one grid fewer than are stored, or cut short,
\* or with a header whose first axis has the wrong sign
GridInit ==
  /\ g_name \in GridNames
  /\ g_dims \in Dims
  /\ g_ids \in IdentSeqs
  /\ \E damage \in { "none", "missing", "extra", "cut", "negated" } :
       \/ /\ damage = "none"
          /\ g_ngrids = Len(g_ids)
          /\ g_file = EncodeGridFile(g_dims, g_ngrids, g_ids)
       \/ /\ damage = "missing"
          /\ g_ngrids = Len(g_ids) + 1
          /\ g_file = EncodeGridFile(g_dims, g_ngrids, g_ids)
       \/ /\ damage = "extra"
          /\ Len(g_ids) >= 1
          /\ g_ngrids = Len(g_ids) - 1
          /\ g_file = EncodeGridFile(g_dims, g_ngrids, g_ids)
       \/ /\ damage = "cut"
          /\ g_ngrids = Len(g_ids)
          /\ \E n \in CutLengths(g_dims, g_ngrids) :
               g_file = SubSeq(EncodeGridFile(g_dims, g_ngrids, g_ids), 1, n)
       \/ /\ damage = "negated"
          /\ Len(g_ids) >= 1
          /\ g_ngrids = Len(g_ids)
          /\ g_file = EncodeGridFileNegated(g_dims, g_ngrids, g_ids)
  /\ GridLocalsInit
  /\ CatIdle
  /\ HistIdle
  /\ FlagsIdle
  /\ LegacyIdle

\* no array: what a call that raises hands to its caller
NoArray == << >>

\* an exception leaves the function: its locals are dropped and the caller
\* receives nothing
RaisedPartial(local) == local
Raised(local) == NoArray

\* leaving the with block, by its end or by an exception, closes the file
WithExitLeak(open) == open
WithExit(open) == FALSE

\* an exception leaves the with block: fin is closed and the call has failed
GridFailRetry(err) ==
  /\ g_pc' = "open"
  /\ g_error' = err
  /\ g_open' = WithExit(g_open)
  /\ g_result' = Raised(g_grid)
GridFail(err) ==
  /\ g_pc' = "failed"
  /\ g_error' = err
  /\ g_open' = WithExit(g_open)
  /\ g_result' = Raised(g_grid)

\* lines 109-116: the lookup; an unknown name is logged and the call goes on
GridLookup ==
  /\ g_pc = "start"
  /\ IF g_name \in KnownGridNames
     THEN g_ident' = NameToIdent(g_name) /\ g_logged' = FALSE
     ELSE g_ident' = Unbound /\ g_logged' = TRUE
  /\ g_pc' = "open"
  /\ UNCHANGED << cvars, hvars, tvars, lvars >>
  /\ UNCHANGED << g_name, g_file, g_dims, g_ngrids, g_ids, g_open, g_pos, g_n_cell,
                  g_n_cell_total, g_skip, g_grid, g_shape, g_result, g_error, g_opens,
                  g_identReads, g_identAt, g_seeks, g_payloadReads, g_short >>

\* line 118: open(fname, "rb")
GridOpen ==
  /\ g_pc = "open"
  /\ g_open' = TRUE
  /\ g_pos' = 0
  /\ g_opens' = g_opens + 1
  /\ g_pc' = "header"
  /\ UNCHANGED << cvars, hvars, tvars, lvars >>
  /\ UNCHANGED << g_name, g_file, g_dims, g_ngrids, g_ids, g_ident, g_n_cell,
                  g_n_cell_total, g_skip, g_grid, g_shape, g_result, g_error, g_logged,
                  g_identReads, g_identAt, g_seeks, g_payloadReads, g_short >>

\* lines 120-124: n_cell, n_cell_total, box size, n_grids, ma_scheme
GridReadHeader ==
  /\ g_pc = "header"
  /\ LET flen == Len(g_file)
         cells == FromFile(g_file, 0, Int32Bytes, NAxes)
         p1 == PosAfterRead(flen, 0, Int32Bytes, NAxes)
         nbox == FromFileCount(flen, p1, Float64Bytes, NAxes)
         p2 == PosAfterRead(flen, p1, Float64Bytes, NAxes)
         ng == FromFileCount(flen, p2, Int32Bytes, 1)
         p3 == PosAfterRead(flen, p2, Int32Bytes, 1)
         ma == FromFileCount(flen, p3, Int32Bytes, 1)
         p4 == PosAfterRead(flen, p3, Int32Bytes, 1)
         n_cell == [ i \in 1..Len(cells) |-> DecodeI32(cells[i]) ]
     IN  /\ g_short' = (Len(cells) < NAxes \/ nbox < NAxes \/ ng < 1 \/ ma < 1)
         /\ IF Len(cells) = 0 \/ ng = 0 \/ ma = 0
            THEN \* cumprod()[-1] or [0] of an empty array
                 /\ GridFail("IndexError")
                 /\ g_pos' = (IF Len(cells) = 0 THEN p1 ELSE IF ng = 0 THEN p3 ELSE p4)
                 /\ g_n_cell' = n_cell
                 /\ g_n_cell_total' = (IF Len(cells) = 0 THEN 0 ELSE Product(n_cell))
            ELSE /\ g_pc' = "ident"
                 /\ g_pos' = p4
                 /\ g_n_cell' = n_cell
                 /\ g_n_cell_total' = Product(n_cell)
                 /\ UNCHANGED << g_open, g_error, g_result >>
  /\ UNCHANGED << cvars, hvars, tvars, lvars >>
  /\ UNCHANGED << g_name, g_file, g_dims, g_ngrids, g_ids, g_ident, g_skip, g_grid,
                  g_shape, g_logged, g_opens, g_identReads, g_identAt, g_seeks, g_payloadReads >>

\* lines 127-131: read the identifier and compare it
GridReadIdent ==
  /\ g_pc = "ident"
  /\ g_identReads < MaxIdentReads
  /\ g_identAt' = Append(g_identAt, g_pos)
  /\ LET items == FromFile(g_file, g_pos, IdentBytes, 1)
         read_ident == FirstChars(StripNul(items[1]))
     IN  /\ g_identReads' = g_identReads + 1
         /\ g_pos' = PosAfterRead(Len(g_file), g_pos, IdentBytes, 1)
         /\ g_short' = (g_short \/ Len(items) < 1)
         /\ IF Len(items) = 0
            THEN GridFail("IndexError") /\ UNCHANGED g_skip
            ELSE IF ~IsAscii(read_ident)
            THEN GridFail("UnicodeDecodeError") /\ UNCHANGED g_skip
            ELSE IF g_ident = Unbound
            THEN GridFail("UnboundLocalError") /\ UNCHANGED g_skip
            ELSE /\ g_skip' = (read_ident # g_ident)
                 /\ g_pc' = (IF read_ident # g_ident THEN "seek" ELSE "payload")
                 /\ UNCHANGED << g_open, g_error, g_result >>
  /\ UNCHANGED << cvars, hvars, tvars, lvars >>
  /\ UNCHANGED << g_name, g_file, g_dims, g_ngrids, g_ids, g_ident, g_n_cell,
                  g_n_cell_total, g_grid, g_shape, g_logged, g_opens, g_seeks,
                  g_payloadReads >>

\* line 132: fin.seek(4 * n_cell_total, 1); a seek to before the start of
\* the file is refused
GridSeek ==
  /\ g_pc = "seek"
  /\ g_seeks' = g_seeks + 1
  /\ IF g_pos + SkipBytes(g_n_cell_total) < 0
     THEN GridFail("OSError") /\ UNCHANGED g_pos
     ELSE /\ g_pos' = g_pos + SkipBytes(g_n_cell_total)
          /\ g_pc' = "ident"
          /\ UNCHANGED << g_open, g_result, g_error >>
  /\ UNCHANGED << cvars, hvars, tvars, lvars >>
  /\ UNCHANGED << g_name, g_file, g_dims, g_ngrids, g_ids, g_ident, g_n_cell,
                  g_n_cell_total, g_skip, g_grid, g_shape, g_logged, g_opens,
                  g_identReads, g_identAt, g_payloadReads, g_short >>

\* line 135 and the end of the with block: read the grid, close fin
GridReadPayload ==
  /\ g_pc = "payload"
  /\ LET items == FromFile(g_file, g_pos, Int32Bytes, g_n_cell_total)
     IN  /\ g_grid' = [ i \in 1..Len(items) |-> DecodeLE32(items[i]) ]
         /\ g_short' = (g_short \/ Len(items) < g_n_cell_total)
  /\ g_pos' = PosAfterRead(Len(g_file), g_pos, Int32Bytes, g_n_cell_total)
  /\ g_payloadReads' = g_payloadReads + 1
  /\ g_open' = WithExit(g_open)
  /\ g_pc' = "reshape"
  /\ UNCHANGED << cvars, hvars, tvars, lvars >>
  /\ UNCHANGED << g_name, g_file, g_dims, g_ngrids, g_ids, g_ident, g_n_cell,
                  g_n_cell_total, g_skip, g_shape, g_result, g_error, g_logged, g_opens,
                  g_identReads, g_identAt, g_seeks >>

\* the index triples of an array of the given shape
Indices(shape) ==
  { << i, j, k >> : i \in 0..(shape[1] - 1), j \in 0..(shape[2] - 1), k \in 0..(shape[3] - 1) }

\* the value a view of the given buffer shows at a flat index; a view never
\* reaches past its buffer, since the shape assignment checks the size first
OutOfBuffer == << >>
ViewElement(grid, flat) == IF flat < Len(grid) THEN grid[flat + 1] ELSE OutOfBuffer

\* lines 137-138: grid.shape = n_cell; return grid
GridReshape ==
  /\ g_pc = "reshape"
  /\ IF ShapeFits(g_grid, g_n_cell)
     THEN /\ g_shape' = ResolveShape(g_grid, g_n_cell)
          /\ g_result' = [ x \in Indices(ResolveShape(g_grid, g_n_cell)) |->
                             ViewElement(g_grid,
                                         FlatIndex(ResolveShape(g_grid, g_n_cell),
                                                   x[1], x[2], x[3])) ]
          /\ g_pc' = "done"
          /\ UNCHANGED g_error
     ELSE /\ g_pc' = "failed"
          /\ g_error' = "ValueError"
          /\ g_result' = Raised(g_grid)
          /\ UNCHANGED g_shape
  /\ UNCHANGED << cvars, hvars, tvars, lvars >>
  /\ UNCHANGED << g_name, g_file, g_dims, g_ngrids, g_ids, g_ident, g_open, g_pos,
                  g_n_cell, g_n_cell_total, g_skip, g_grid, g_logged, g_opens,
                  g_identReads, g_identAt, g_seeks, g_payloadReads, g_short >>

GridNext ==
  \/ GridLookup
  \/ GridOpen
  \/ GridReadHeader
  \/ GridReadIdent
  \/ GridSeek
  \/ GridReadPayload
  \/ GridReshape

SpecGrid == GridInit /\ [][GridNext]_vars

(***************************************************************************)
(* read_halo_catalog: paths, shard files, and the numpy operations used.   *)
(***************************************************************************)
\* most halos one shard announces in its header
MaxHalosFile == 2
\* most entries of the catalog directory
MaxShards == 3

\* itemsize of catalog_header_dtype: four aligned i4
CatalogHeaderBytes == 16
\* itemsize of catalog_halo_dtype with align=True
HaloRecordBytes == 152

\* file names, character by character
NameC1  == << "c", ".", "1" >>
NameC01 == << "c", ".", "0", "1" >>
NameC2  == << "c", ".", "2" >>
NameC10 == << "c", ".", "1", "0" >>
NameChoices == { NameC1, NameC01, NameC2, NameC10 }

\* the catalog directory
DirPath == << "d" >>

\* path.join(dirname, f)
Join(dirname, f) == dirname \o << "/" >> \o f

\* path.isdir
IsDir(p) == p = DirPath

\* the entry of the catalog directory a path names, NoPath when none
EntryOf(p) ==
  IF \E nm \in fs_dir : p = Join(DirPath, nm)
  THEN CHOOSE nm \in fs_dir : p = Join(DirPath, nm)
  ELSE NoPath

DigitValue(ch) ==
  CASE ch = "0" -> 0 [] ch = "1" -> 1 [] ch = "2" -> 2 [] ch = "3" -> 3
    [] ch = "4" -> 4 [] ch = "5" -> 5 [] ch = "6" -> 6 [] ch = "7" -> 7
    [] ch = "8" -> 8 [] ch = "9" -> 9 [] OTHER -> -1

\* f.rsplit(".")[-1]: the characters after the last "."
RECURSIVE LastPiece(_)
LastPiece(f) ==
  IF f = << >> THEN << >>
  ELSE IF f[Len(f)] = "." THEN << >>
  ELSE LastPiece(SubSeq(f, 1, Len(f) - 1)) \o << f[Len(f)] >>

\* int() accepts a non-empty run of decimal digits
IsIntLiteral(cs) == cs # << >> /\ \A i \in 1..Len(cs) : DigitValue(cs[i]) >= 0

RECURSIVE IntOf(_)
IntOf(cs) ==
  IF cs = << >> THEN 0
  ELSE 10 * IntOf(SubSeq(cs, 1, Len(cs) - 1)) + DigitValue(cs[Len(cs)])

\* the sort key of a directory entry: int(f.rsplit(".")[-1])
FileNumLastDigit(f) == DigitValue(f[Len(f)])
FileNum(f) == IntOf(LastPiece(f))

\* the permutations of 1..n, for every n up to the size of the directory
PermsUpTo ==
  [ n \in 0..MaxShards |->
      { p \in [ 1..n -> 1..n ] : \A i, j \in 1..n : p[i] = p[j] => i = j } ]
Perms(n) == PermsUpTo[n]

\* np.argsort(keys): an index order that sorts the keys; the order among equal
\* keys is whatever the sort kind of the build makes it
ArgSortsNone(keys) == { [ i \in 1..Len(keys) |-> i ] }
ArgSorts(keys) ==
  { p \in Perms(Len(keys)) : \A i, j \in 1..Len(keys) : i < j => keys[p[i]] <= keys[p[j]] }

\* the element catalog_loc[0] that path.isdir looks at
DirCandidateLast(loc) == loc[Len(loc)]
DirCandidate(loc) == loc[1]

\* the file catalog_loc[0] whose header gives N_halos_total
HeaderSourceLast(loc) == loc[Len(loc)]
HeaderSource(loc) == loc[1]

\* the header field that sizes the buffer: [0]["N_halos_total"]
AllocLengthFile(hdr) == hdr.N_halos_file
AllocLength(hdr) == hdr.N_halos_total

\* length in bytes of a shard file
FileBytes(f) ==
  CatalogHeaderBytes * Len(f.hdr) + HaloRecordBytes * Len(f.recs) + f.frag

\* np.fromfile(fd, catalog_header_dtype, 1) at position pos
ReadHeaders(f, pos) ==
  SubSeq(f.hdr, 1, FromFileCount(FileBytes(f), pos, CatalogHeaderBytes, 1))

\* np.fromfile(fd, catalog_halo_dtype, count) at position pos, after the header
ReadRecords(f, pos, count) ==
  SubSeq(f.recs, 1, FromFileCount(FileBytes(f), pos, HaloRecordBytes, count))

\* the indices (from 1) of a[start : stop] for an array of n items
SliceIndices(n, start, stop) == (Min(start, n) + 1)..Min(stop, n)

\* a[start : stop] = data is accepted when data has the slice's length or
\* holds exactly one item, which is then broadcast
AssignFits(n, start, stop, data) ==
  \/ Len(data) = Cardinality(SliceIndices(n, start, stop))
  \/ Len(data) = 1

AssignSlice(a, start, stop, data) ==
  [ i \in 1..Len(a) |->
      IF i \in SliceIndices(Len(a), start, stop)
      THEN (IF Len(data) = 1 THEN data[1] ELSE data[i - Min(start, Len(a))])
      ELSE a[i] ]

\* the running offset after a shard
NextOffsetStuck(n_halos, n_halos_file) == n_halos
NextOffset(n_halos, n_halos_file) == n_halos + n_halos_file

\* names of catalog_halo_dtype, in order
HaloFieldNames ==
  << "id_MBP", "M_vir", "n_particles", "position_COM", "position_MBP",
     "velocity_COM", "velocity_MBP", "R_vir", "R_halo", "R_max", "V_max",
     "sigma_v", "spin", "q_triaxial", "s_triaxial", "shape_eigen_vectors",
     "padding" >>

\* bytes of each field: q, f8, i4, four (f4, 3), five f4, (f4, 3), two f4,
\* (f4, (3, 3)), S8; with these formats align=True inserts no gap
HaloFieldBytes ==
  << 8, 8, 4, 12, 12, 12, 12, 4, 4, 4, 4, 4, 12, 4, 4, 36, 8 >>

HaloFields == { HaloFieldNames[i] : i \in 1..Len(HaloFieldNames) }

\* catalog_halo_dtype.names[:-1]
AllFieldNames == HaloFieldNames
ExposedFieldNames == SubSeq(HaloFieldNames, 1, Len(HaloFieldNames) - 1)

\* halo[list(catalog_halo_dtype.names[:-1])]: every field but the last
DropPadding(rec) ==
  [ f \in { ExposedFieldNames[i] : i \in 1..Len(ExposedFieldNames) } |-> rec[f] ]

\* a slot of the buffer np.empty returns, before anything is written to it:
\* the memory is left as it was, so what a read of the slot finds is all zero
\* or whatever was there
Uninitialized == [ f \in HaloFields |-> -1 ]
ZeroRecord == [ f \in HaloFields |-> 0 ]
JunkRecord == [ f \in HaloFields |-> 99 ]
MemoryContents == { ZeroRecord, JunkRecord }

\* the record read from a slot
Stored(slot, memory) == IF slot = Uninitialized THEN memory ELSE slot

(***************************************************************************)
(* The catalog sets the reader is run on.                                  *)
(***************************************************************************)
\* file_num of every entry a directory can hold
FileNumOf == [ nm \in NameChoices |-> FileNum(nm) ]

NameId(nm) ==
  CASE nm = NameC1 -> 1 [] nm = NameC01 -> 2 [] nm = NameC2 -> 3 [] nm = NameC10 -> 4

\* the r-th halo record (from 1) written to the shard of entry nm
HaloRecord(nm, r) ==
  [ f \in HaloFields |->
      IF f = "id_MBP" THEN 10 * NameId(nm) + r
      ELSE IF f = "padding" THEN 7
      ELSE IF f = "n_particles" THEN 100 + r
      ELSE NameId(nm) ]

RECURSIVE SumOver(_, _)
SumOver(S, n) ==
  IF S = { } THEN 0
  ELSE LET x == CHOOSE y \in S : TRUE IN n[x] + SumOver(S \ { x }, n)

\* what is wrong with the catalog set, if anything: the N_halos_total of every
\* shard is off by delta, or that of one shard is, or one shard has a short
\* header, or one shard holds only got of its records
Faults(D, n) ==
  { [ kind |-> "none", at |-> NoPath, arg |-> 0 ] }
    \cup { [ kind |-> "total", at |-> NoPath, arg |-> d ] :
             d \in { d \in { -1, 1 } : SumOver(D, n) + d >= 0 } }
    \cup { [ kind |-> "total_of", at |-> nm, arg |-> 1 ] : nm \in D }
    \cup { [ kind |-> "short_header", at |-> nm, arg |-> 0 ] : nm \in D }
    \cup UNION { { [ kind |-> "short_records", at |-> nm, arg |-> got ] :
                     got \in 0..(n[nm] - 1) } : nm \in D }

ShardFile(D, n, fault, nm) ==
  LET total == SumOver(D, n)
                 + (IF fault.kind = "total" \/ (fault.kind = "total_of" /\ fault.at = nm)
                    THEN fault.arg ELSE 0)
      header == [ i_file |-> NameId(nm), N_files |-> Cardinality(D),
                  N_halos_file |-> n[nm], N_halos_total |-> total ]
      got == IF fault.kind = "short_records" /\ fault.at = nm THEN fault.arg ELSE n[nm]
  IN  IF fault.kind = "short_header" /\ fault.at = nm
      THEN [ hdr |-> << >>, recs |-> << >>, frag |-> 8 ]
      ELSE [ hdr |-> << header >>,
             recs |-> [ r \in 1..got |-> HaloRecord(nm, r) ],
             frag |-> IF got < n[nm] THEN 100 ELSE 0 ]

\* the orders in which the entries of a set can be listed
RECURSIVE SomeListing(_)
SomeListing(D) ==
  IF D = { } THEN << >>
  ELSE LET x == CHOOSE y \in D : TRUE IN << x >> \o SomeListing(D \ { x })

Listings(D) ==
  LET l0 == SomeListing(D)
  IN  { [ i \in 1..Len(l0) |-> l0[p[i]] ] : p \in Perms(Len(l0)) }

\* the orders a caller lists the shard files in: by ascending file_num, or
\* by descending file_num
CallerOrders(D) ==
  { l \in Listings(D) :
      \/ \A i, j \in 1..Len(l) : i < j => FileNum(l[i]) <= FileNum(l[j])
      \/ \A i, j \in 1..Len(l) : i < j => FileNum(l[i]) >= FileNum(l[j]) }

\* the argument: the directory, the shard file of a catalog of one shard, or
\* a list of the shard files
Arguments(D) ==
  { [ type |-> "str", path |-> DirPath, paths |-> << >> ] }
    \cup { [ type |-> "str", path |-> Join(DirPath, nm), paths |-> << >> ] :
             nm \in { x \in D : Cardinality(D) = 1 } }
    \cup { [ type |-> "list", path |-> NoPath,
             paths |-> [ i \in 1..Len(l) |-> Join(DirPath, l[i]) ] ] : l \in CallerOrders(D) }

\* lists that mix the directory and a shard file of it: the directory first,
\* or the directory behind a file
MixedArguments(D) ==
  IF D = { } THEN { }
  ELSE LET nm == CHOOSE x \in D : \A y \in D : FileNumOf[x] <= FileNumOf[y]
       IN  { [ type |-> "list", path |-> NoPath,
               paths |-> << DirPath, Join(DirPath, nm) >> ],
             [ type |-> "list", path |-> NoPath,
               paths |-> << Join(DirPath, nm), DirPath >> ] }

CatLocalsInit ==
  /\ c_pc = "start"
  /\ c_loc = << >>
  /\ c_dirname = << >>
  /\ c_halo = << >>
  /\ c_n_halos = 0
  /\ c_i = 0
  /\ c_fd = NoPath
  /\ c_handles = << >>
  /\ c_fdpos = 0
  /\ c_n_halos_file = 0
  /\ c_error = "none"
  /\ c_result = << >>
  /\ c_reads = << >>
  /\ c_short = FALSE

CatInit ==
  /\ fs_dir \in { D \in SUBSET NameChoices : Cardinality(D) <= MaxShards }
  /\ \E n \in [ fs_dir -> 0..MaxHalosFile ] :
       \E fault \in Faults(fs_dir, n) :
         /\ fs_files = [ nm \in fs_dir |-> ShardFile(fs_dir, n, fault, nm) ]
         /\ c_arg \in Arguments(fs_dir)
                      \cup (IF fault.kind = "none" THEN MixedArguments(fs_dir) ELSE { })
  /\ CatLocalsInit
  /\ GridIdle
  /\ HistIdle
  /\ FlagsIdle
  /\ LegacyIdle

\* open(f, "rb"): one more handle
OpenHandle(handles, path) == Append(handles, path)

\* the handle opened last is closed
CloseHandleNot(handles) == handles
CloseHandle(handles) ==
  IF handles = << >> THEN << >> ELSE SubSeq(handles, 1, Len(handles) - 1)

\* an exception ends the call; the with block, when inside one, closes the
\* open shard
CatFailContinue(err) ==
  /\ c_pc' = "loop"
  /\ c_error' = err
  /\ c_fd' = NoPath
  /\ c_result' = Raised(c_halo)
CatFail(err) ==
  /\ c_pc' = "failed"
  /\ c_error' = err
  /\ c_fd' = NoPath
  /\ c_result' = Raised(c_halo)

\* lines 154-157: a str becomes a one-element list
CatNormalize ==
  /\ c_pc = "start"
  /\ c_loc' = (IF c_arg.type = "str" THEN << c_arg.path >> ELSE c_arg.paths)
  /\ c_pc' = "isdir"
  /\ UNCHANGED << cin, c_dirname, c_halo, c_n_halos, c_i, c_fd, c_handles, c_fdpos,
                  c_n_halos_file, c_error, c_result, c_reads, c_short >>
  /\ UNCHANGED << gvars, hvars, tvars, lvars >>

\* lines 159-161: catalog_loc[0] is looked at; a directory is listed, in
\* whatever order the file system returns its entries
CatListDir ==
  /\ c_pc = "isdir"
  /\ IF c_loc = << >>
     THEN \* catalog_loc[0] of an empty list
          CatFail("IndexError") /\ UNCHANGED << c_loc, c_dirname >>
     ELSE IF ~IsDir(DirCandidate(c_loc))
     THEN c_pc' = "first" /\ UNCHANGED << c_loc, c_dirname, c_error, c_fd, c_result >>
     ELSE /\ c_dirname' = DirCandidate(c_loc)
          /\ c_loc' \in Listings(fs_dir)
          /\ c_pc' = "sort"
          /\ UNCHANGED << c_error, c_fd, c_result >>
  /\ UNCHANGED << cin, c_halo, c_n_halos, c_i, c_handles, c_fdpos, c_n_halos_file,
                  c_reads, c_short >>
  /\ UNCHANGED << gvars, hvars, tvars, lvars >>

\* lines 162-165: the entries are sorted by file_num and joined to dirname
CatSortEntries ==
  /\ c_pc = "sort"
  /\ IF \E i \in 1..Len(c_loc) : ~IsIntLiteral(LastPiece(c_loc[i]))
     THEN CatFail("ValueError") /\ UNCHANGED c_loc
     ELSE \E sort_index \in ArgSorts([ i \in 1..Len(c_loc) |-> FileNumOf[c_loc[i]] ]) :
            /\ c_loc' = [ i \in 1..Len(c_loc) |-> Join(c_dirname, c_loc[sort_index[i]]) ]
            /\ c_pc' = "first"
            /\ UNCHANGED << c_error, c_fd, c_result >>
  /\ UNCHANGED << cin, c_dirname, c_halo, c_n_halos, c_i, c_handles, c_fdpos,
                  c_n_halos_file, c_reads, c_short >>
  /\ UNCHANGED << gvars, hvars, tvars, lvars >>

\* line 167 on an empty catalog_loc: catalog_loc[0] raises
EmptyLocReturnsEmpty ==
  /\ c_pc' = "done"
  /\ UNCHANGED << c_error, c_fd, c_result, c_halo, c_n_halos, c_i, c_handles, c_reads,
                  c_short >>
EmptyLocOutcome ==
  /\ CatFail("IndexError")
  /\ UNCHANGED << c_halo, c_n_halos, c_i, c_handles, c_reads, c_short >>

\* lines 167-171: N_halos_total of the first shard's header, the buffer, and
\* the offset set to 0
CatFirstHeader ==
  /\ c_pc = "first"
  /\ IF c_loc = << >>
     THEN EmptyLocOutcome
     ELSE LET src == HeaderSource(c_loc)
              nm == EntryOf(src)
              hdrs == ReadHeaders(fs_files[nm], 0)
          IN  IF IsDir(src)
              THEN /\ CatFail("IsADirectoryError")
                   /\ UNCHANGED << c_halo, c_n_halos, c_i, c_handles, c_reads, c_short >>
              ELSE IF nm = NoPath
              THEN /\ CatFail("FileNotFoundError")
                   /\ UNCHANGED << c_halo, c_n_halos, c_i, c_handles, c_reads, c_short >>
              ELSE /\ c_reads' = Append(c_reads, src)
                   /\ c_short' = (c_short \/ Len(hdrs) < 1)
                   \* fromfile opens the path, reads, and closes it again
                   /\ c_handles' = CloseHandle(OpenHandle(c_handles, src))
                   /\ IF Len(hdrs) = 0
                      THEN /\ CatFail("IndexError")
                           /\ UNCHANGED << c_halo, c_n_halos, c_i >>
                      ELSE /\ c_halo' = [ i \in 1..AllocLength(hdrs[1]) |-> Uninitialized ]
                           /\ c_n_halos' = 0
                           /\ c_i' = 1
                           /\ c_pc' = "loop"
                           /\ UNCHANGED << c_error, c_fd, c_result >>
  /\ UNCHANGED << cin, c_dirname, c_loc, c_fdpos, c_n_halos_file >>
  /\ UNCHANGED << gvars, hvars, tvars, lvars >>

\* lines 172-173: the next shard is opened
CatOpenShard ==
  /\ c_pc = "loop"
  /\ c_i <= Len(c_loc)
  /\ IF IsDir(c_loc[c_i])
     THEN CatFail("IsADirectoryError") /\ UNCHANGED << c_fdpos, c_reads, c_handles >>
     ELSE IF EntryOf(c_loc[c_i]) = NoPath
     THEN CatFail("FileNotFoundError") /\ UNCHANGED << c_fdpos, c_reads, c_handles >>
     ELSE /\ c_fd' = c_loc[c_i]
          /\ c_handles' = OpenHandle(c_handles, c_loc[c_i])
          /\ c_fdpos' = 0
          /\ c_reads' = Append(c_reads, c_loc[c_i])
          /\ c_pc' = "header"
          /\ UNCHANGED << c_error, c_result >>
  /\ UNCHANGED << cin, c_dirname, c_loc, c_halo, c_n_halos, c_i, c_n_halos_file,
                  c_short >>
  /\ UNCHANGED << gvars, hvars, tvars, lvars >>

\* line 174: N_halos_file of the shard's header
CatShardHeader ==
  /\ c_pc = "header"
  /\ LET f == fs_files[EntryOf(c_fd)]
         hdrs == ReadHeaders(f, c_fdpos)
     IN  /\ c_fdpos' = PosAfterRead(FileBytes(f), c_fdpos, CatalogHeaderBytes, 1)
         /\ c_short' = (c_short \/ Len(hdrs) < 1)
         /\ IF Len(hdrs) = 0
            THEN /\ CatFail("IndexError")
                 /\ c_handles' = CloseHandle(c_handles)
                 /\ UNCHANGED c_n_halos_file
            ELSE /\ c_n_halos_file' = hdrs[1].N_halos_file
                 /\ c_pc' = "records"
                 /\ UNCHANGED << c_error, c_fd, c_handles, c_result >>
  /\ UNCHANGED << cin, c_dirname, c_loc, c_halo, c_n_halos, c_i, c_reads >>
  /\ UNCHANGED << gvars, hvars, tvars, lvars >>

\* lines 175-178: the shard's records go to halo[n_halos : n_halos + n_halos_file],
\* the shard is closed and the offset advances
CatShardRecords ==
  /\ c_pc = "records"
  /\ LET f == fs_files[EntryOf(c_fd)]
         data == ReadRecords(f, c_fdpos, c_n_halos_file)
     IN  /\ c_fdpos' = PosAfterRead(FileBytes(f), c_fdpos, HaloRecordBytes, c_n_halos_file)
         /\ c_short' = (c_short \/ Len(data) < c_n_halos_file)
         /\ IF AssignFits(Len(c_halo), c_n_halos, c_n_halos + c_n_halos_file, data)
            THEN /\ c_halo' = AssignSlice(c_halo, c_n_halos, c_n_halos + c_n_halos_file, data)
                 /\ c_n_halos' = NextOffset(c_n_halos, c_n_halos_file)
                 /\ c_i' = c_i + 1
                 /\ c_fd' = NoPath
                 /\ c_handles' = CloseHandle(c_handles)
                 /\ c_pc' = "loop"
                 /\ UNCHANGED << c_error, c_result >>
            ELSE /\ CatFail("ValueError")
                 /\ c_handles' = CloseHandle(c_handles)
                 /\ UNCHANGED << c_halo, c_n_halos, c_i >>
  /\ UNCHANGED << cin, c_dirname, c_loc, c_n_halos_file, c_reads >>
  /\ UNCHANGED << gvars, hvars, tvars, lvars >>

\* line 180: the loop is over; every field but padding is returned
CatReturn ==
  /\ c_pc = "loop"
  /\ c_i > Len(c_loc)
  /\ \E memory \in MemoryContents :
       c_result' = [ i \in 1..Len(c_halo) |-> DropPadding(Stored(c_halo[i], memory)) ]
  /\ c_pc' = "done"
  /\ UNCHANGED << cin, c_dirname, c_loc, c_halo, c_n_halos, c_i, c_fd, c_handles,
                  c_fdpos, c_n_halos_file, c_error, c_reads, c_short >>
  /\ UNCHANGED << gvars, hvars, tvars, lvars >>

\* lines 172-178 as a function of the list: the buffer after the shards from
\* the i-th on were copied, or the error that ends the loop
RECURSIVE CopyShards(_, _, _, _)
CopyShards(halo, n_halos, loc, i) ==
  IF i > Len(loc) THEN [ error |-> "none", halo |-> halo ]
  ELSE IF IsDir(loc[i]) THEN [ error |-> "IsADirectoryError", halo |-> << >> ]
  ELSE IF EntryOf(loc[i]) = NoPath THEN [ error |-> "FileNotFoundError", halo |-> << >> ]
  ELSE LET f == fs_files[EntryOf(loc[i])]
           hdrs == ReadHeaders(f, 0)
           pos == PosAfterRead(FileBytes(f), 0, CatalogHeaderBytes, 1)
           data == ReadRecords(f, pos, hdrs[1].N_halos_file)
           stop == n_halos + hdrs[1].N_halos_file
       IN  IF Len(hdrs) = 0 THEN [ error |-> "IndexError", halo |-> << >> ]
           ELSE IF ~AssignFits(Len(halo), n_halos, stop, data)
           THEN [ error |-> "ValueError", halo |-> << >> ]
           ELSE CopyShards(AssignSlice(halo, n_halos, stop, data),
                           NextOffset(n_halos, hdrs[1].N_halos_file), loc, i + 1)

\* lines 167-180 as a function of the list of paths: the error raised, and
\* the arrays that can be returned
ReadList(loc) ==
  IF loc = << >> THEN [ error |-> "IndexError", results |-> { } ]
  ELSE IF EntryOf(HeaderSource(loc)) = NoPath
  THEN [ error |-> "FileNotFoundError", results |-> { } ]
  ELSE LET hdrs == ReadHeaders(fs_files[EntryOf(HeaderSource(loc))], 0)
           filled == CopyShards([ i \in 1..AllocLength(hdrs[1]) |-> Uninitialized ], 0, loc, 1)
       IN  IF Len(hdrs) = 0 THEN [ error |-> "IndexError", results |-> { } ]
           ELSE IF filled.error # "none" THEN [ error |-> filled.error, results |-> { } ]
           ELSE [ error |-> "none",
                  results |-> { [ i \in 1..Len(filled.halo) |->
                                    DropPadding(Stored(filled.halo[i], memory)) ] :
                                memory \in MemoryContents } ]

CatNext ==
  \/ CatNormalize
  \/ CatListDir
  \/ CatSortEntries
  \/ CatFirstHeader
  \/ CatOpenShard
  \/ CatShardHeader
  \/ CatShardRecords
  \/ CatReturn

SpecCat == CatInit /\ [][CatNext]_vars

(***************************************************************************)
(* galaxy_history: the first progenitor line of a galaxy, and its future.  *)
(***************************************************************************)
\* the last snapshot of the master file
MaxSnap == 3

\* indices of the galaxies of a snapshot
GalIndices == { 0, 1 }

Snapshots == 0..MaxSnap

\* the value that stands for no galaxy in the index arrays
NoInd == -1

\* gals["ID"] of galaxy i of snapshot s
GalID(s, i) == 10 * s + i + 1

\* an ID no galaxy has
AbsentID == 99

\* read_gals(fname, snapshot=s): the galaxies of the snapshot, by index
ReadGals(s) == [ i \in GalIndices |-> [ ID |-> GalID(s, i) ] ]

\* read_firstprogenitor_indices(fname, s) and read_descendant_indices(fname, s)
ReadFirstProgenitorIndices(s) == h_fp[s]
ReadDescendantIndices(s) == h_desc[s]

\* an element of np.zeros(n, dtype=gals.dtype)
ZeroGal == [ ID |-> 0 ]

\* np.where(gals["ID"] == gal_id)[0]
WhereID(gals, gal_id) == { i \in DOMAIN gals : gals[i].ID = gal_id }

\* the merged_snapshot check: the first progenitor of the descendant is
\* looked at only before the last snapshot of the future
ChecksMerger(snap, future_snapshot) == snap < future_snapshot

\* the index arrays of a master file in which the galaxy i0 of snapshot s0
\* has the first progenitor line p (p[s] is the first progenitor index of
\* the line's galaxy of snapshot s) and the descendant line d, f (d[s] is the
\* index at snapshot s of the descendant, f[s] its first progenitor index);
\* galaxies off these lines have neither progenitor nor descendant
LineIndex(s0, i0, p, d, s) ==
  IF s = s0 THEN i0 ELSE IF s > s0 THEN d[s] ELSE p[s + 1]

DescendantArrays(s0, i0, p, d) ==
  [ s \in Snapshots |->
      [ i \in GalIndices |->
          IF s < MaxSnap /\ LineIndex(s0, i0, p, d, s) = i
          THEN LineIndex(s0, i0, p, d, s + 1) ELSE NoInd ] ]

FirstProgenitorArrays(s0, i0, p, d, f) ==
  [ s \in Snapshots |->
      [ i \in GalIndices |->
          IF LineIndex(s0, i0, p, d, s) = i
          THEN (IF s <= s0 THEN p[s] ELSE f[s]) ELSE NoInd ] ]

\* the lines of a file: a line ends where its index is -1, and a descendant
\* has a first progenitor; the file may have been cut before its snapshot 0,
\* whose galaxies then still name a first progenitor
ProgenitorLines(s0) ==
  { p \in [ 0..s0 -> GalIndices \cup { NoInd } ] :
      \A s \in 1..s0 : p[s] = NoInd => p[s - 1] = NoInd }

DescendantLines(s0) ==
  { d \in [ (s0 + 1)..MaxSnap -> GalIndices \cup { NoInd } ] :
      \A s \in (s0 + 2)..MaxSnap : d[s - 1] = NoInd => d[s] = NoInd }

DescendantProgenitors(s0, d) ==
  { f \in [ (s0 + 1)..MaxSnap -> GalIndices \cup { NoInd } ] :
      \A s \in (s0 + 1)..MaxSnap : f[s] = NoInd <=> d[s] = NoInd }

HistLocalsInit ==
  /\ h_pc = "start"
  /\ h_start_ind = -1
  /\ h_future_snapshot = h_future_arg
  /\ h_merged_snapshot = -1
  /\ h_history = << >>
  /\ h_ind = -1
  /\ h_snap = -1
  /\ h_error = "none"
  /\ h_result = << >>

HistInit ==
  /\ h_snapshot \in Snapshots
  /\ h_future_arg \in { -1 } \cup Snapshots
  /\ \E i0 \in GalIndices :
       /\ h_gal_id \in { GalID(h_snapshot, i0), AbsentID }
       /\ \E p \in ProgenitorLines(h_snapshot), d \in DescendantLines(h_snapshot) :
            \E f \in DescendantProgenitors(h_snapshot, d) :
              /\ h_desc = DescendantArrays(h_snapshot, i0, p, d)
              /\ h_fp = FirstProgenitorArrays(h_snapshot, i0, p, d, f)
  /\ HistLocalsInit
  /\ GridIdle
  /\ CatIdle
  /\ FlagsIdle
  /\ LegacyIdle

HistFail(err) ==
  /\ h_pc' = "failed"
  /\ h_error' = err

\* history[s] = gal
SetHistoryLost(history, s, gal) == history
SetHistory(history, s, gal) == [ history EXCEPT ![s + 1] = gal ]

\* lines 51-65: the galaxy is looked up, history is allocated, the galaxy is
\* put at history[snapshot], and its first progenitor is read
HistStart ==
  /\ h_pc = "start"
  /\ LET gals == ReadGals(h_snapshot)
         found == WhereID(gals, h_gal_id)
         start_ind == CHOOSE i \in found : \A j \in found : i <= j
         future_snapshot == IF h_future_arg = -1 THEN h_snapshot ELSE h_future_arg
         history == [ k \in 1..(future_snapshot + 1) |-> ZeroGal ]
         ind == ReadFirstProgenitorIndices(h_snapshot)[start_ind]
     IN  IF found = { }
         THEN \* [0] of an empty index array
              /\ HistFail("IndexError")
              /\ UNCHANGED << h_start_ind, h_future_snapshot, h_history, h_ind, h_snap >>
         ELSE IF h_snapshot >= Len(history)
         THEN \* history[snapshot] beyond the end of history
              /\ HistFail("IndexError")
              /\ h_start_ind' = start_ind
              /\ h_future_snapshot' = future_snapshot
              /\ h_history' = history
              /\ UNCHANGED << h_ind, h_snap >>
         ELSE /\ h_start_ind' = start_ind
              /\ h_future_snapshot' = future_snapshot
              /\ h_history' = SetHistory(history, h_snapshot, gals[start_ind])
              /\ h_ind' = ind
              /\ IF ind = -1
                 THEN HistFail("Warning") /\ UNCHANGED h_snap
                 ELSE /\ h_pc' = "progenitors"
                      /\ h_snap' = h_snapshot - 1
                      /\ UNCHANGED h_error
  /\ UNCHANGED << hin, h_merged_snapshot, h_result >>
  /\ UNCHANGED << gvars, cvars, tvars, lvars >>

\* lines 67-72: one turn of the loop over the earlier snapshots
HistProgenitor ==
  /\ h_pc = "progenitors"
  /\ h_snap >= 0
  /\ LET ind == ReadFirstProgenitorIndices(h_snap)[h_ind]
     IN  /\ h_history' = SetHistory(h_history, h_snap, ReadGals(h_snap)[h_ind])
         /\ h_ind' = ind
         /\ IF ind = -1
            THEN h_pc' = "future" /\ UNCHANGED h_snap
            ELSE h_snap' = h_snap - 1 /\ UNCHANGED h_pc
  /\ UNCHANGED << hin, h_start_ind, h_future_snapshot, h_merged_snapshot, h_error,
                  h_result >>
  /\ UNCHANGED << gvars, cvars, tvars, lvars >>

\* line 67, the loop is over: range(snapshot-1, -1, -1) is used up
HistProgenitorsEnd ==
  /\ h_pc = "progenitors"
  /\ h_snap < 0
  /\ h_pc' = "future"
  /\ UNCHANGED << hin, h_start_ind, h_future_snapshot, h_merged_snapshot, h_history,
                  h_ind, h_snap, h_error, h_result >>
  /\ UNCHANGED << gvars, cvars, tvars, lvars >>

\* lines 74-76: the future is wanted: ind = start_ind and the loop starts
HistFutureStart ==
  /\ h_pc = "future"
  /\ IF h_future_snapshot # h_snapshot
     THEN /\ h_ind' = h_start_ind
          /\ h_snap' = h_snapshot + 1
          /\ h_pc' = "descendants"
     ELSE /\ h_pc' = "return"
          /\ UNCHANGED << h_ind, h_snap >>
  /\ UNCHANGED << hin, h_start_ind, h_future_snapshot, h_merged_snapshot, h_history,
                  h_error, h_result >>
  /\ UNCHANGED << gvars, cvars, tvars, lvars >>

\* lines 77-88: one turn of the loop over the later snapshots
HistDescendant ==
  /\ h_pc = "descendants"
  /\ h_snap <= h_future_snapshot
  /\ LET last_ind == h_ind
         ind == ReadDescendantIndices(h_snap - 1)[h_ind]
         fp == ReadFirstProgenitorIndices(h_snap)[ind]
     IN  /\ h_ind' = ind
         /\ IF ind = -1
            THEN /\ h_pc' = "return"
                 /\ UNCHANGED << h_merged_snapshot, h_history, h_snap >>
            ELSE /\ h_merged_snapshot' =
                      (IF ChecksMerger(h_snap, h_future_snapshot)
                            /\ fp # last_ind /\ h_merged_snapshot = -1
                       THEN h_snap ELSE h_merged_snapshot)
                 /\ h_history' = SetHistory(h_history, h_snap, ReadGals(h_snap)[ind])
                 /\ h_snap' = h_snap + 1
                 /\ UNCHANGED h_pc
  /\ UNCHANGED << hin, h_start_ind, h_future_snapshot, h_error, h_result >>
  /\ UNCHANGED << gvars, cvars, tvars, lvars >>

\* line 76, the loop is over: range(snapshot+1, future_snapshot+1) is used up
HistDescendantsEnd ==
  /\ h_pc = "descendants"
  /\ h_snap > h_future_snapshot
  /\ h_pc' = "return"
  /\ UNCHANGED << hin, h_start_ind, h_future_snapshot, h_merged_snapshot, h_history,
                  h_ind, h_snap, h_error, h_result >>
  /\ UNCHANGED << gvars, cvars, tvars, lvars >>

\* lines 93-96: history alone, or history and merged_snapshot
HistReturn ==
  /\ h_pc = "return"
  /\ h_result' =
       (IF h_future_snapshot = h_snapshot
        THEN [ history |-> h_history ]
        ELSE [ history |-> h_history, merged_snapshot |-> h_merged_snapshot ])
  /\ h_pc' = "done"
  /\ UNCHANGED << hin, h_start_ind, h_future_snapshot, h_merged_snapshot, h_history,
                  h_ind, h_snap, h_error >>
  /\ UNCHANGED << gvars, cvars, tvars, lvars >>

HistNext ==
  \/ HistStart
  \/ HistProgenitor
  \/ HistProgenitorsEnd
  \/ HistFutureStart
  \/ HistDescendant
  \/ HistDescendantsEnd
  \/ HistReturn

SpecHist == HistInit /\ [][HistNext]_vars

\* one call of one of the functions
(***************************************************************************)
(* TreeFlags of dragons/nbody/treeflags.py: the constructor reads the      *)
(* flags of a C header, parse names the flags set in a number.             *)
(***************************************************************************)
\* most lines of a header file
MaxLines == 3
\* num is drawn from the numbers of this many bits
NumBits == 3

\* tokens of the header, character by character
TokDefine == << "#", "d", "e", "f", "i", "n", "e" >>
TokEndif == << "#", "e", "n", "d", "i", "f" >>
TokComment == << "/", "/" >>
TokMacro == << "T", "T", "T", "P", "0", "1" >>
FlagA == << "A" >>
FlagB == << "B" >>
TokBit(k) == << "T", "T", "T", "P", "0" >> \o << CHOOSE ch \in { "0", "1", "2" } : DigitValue(ch) = k >>

\* the lines a header is made of, each as line.split() gives it: a blank
\* line, a comment, the definition of the TTTP macro itself, a line of one
\* token, and flag definitions (a name defined twice, a bit given to two
\* names)
LineChoices ==
  { << >>,
    << TokComment, FlagA >>,
    << TokDefine, TokMacro, << "1" >> >>,
    << TokEndif >>,
    << TokDefine, FlagA, TokBit(0) >>,
    << TokDefine, FlagA, TokBit(1) >>,
    << TokDefine, FlagB, TokBit(1) >>,
    << TokDefine, FlagB, TokBit(2) >> }

\* str.startswith
StartsWith(cs, prefix) ==
  Len(cs) >= Len(prefix) /\ SubSeq(cs, 1, Len(prefix)) = prefix

RECURSIVE Pow2(_)
Pow2(k) == IF k = 0 THEN 1 ELSE 2 * Pow2(k - 1)

\* a & b of two non-negative integers
RECURSIVE BitAnd(_, _)
BitAnd(a, b) ==
  IF a = 0 \/ b = 0 THEN 0
  ELSE (a % 2) * (b % 2) + 2 * BitAnd(a \div 2, b \div 2)

\* self.flags[key] = value: a key already present keeps its place and takes
\* the new value, a new key goes last
DictSetAppend(items, key, value) == Append(items, << key, value >>)
DictSet(items, key, value) ==
  IF \E i \in 1..Len(items) : items[i][1] = key
  THEN [ i \in 1..Len(items) |-> IF items[i][1] = key THEN << key, value >> ELSE items[i] ]
  ELSE Append(items, << key, value >>)

\* (num & v) == v
MatchesAny(num, v) == v # 0
Matches(num, v) == BitAnd(num, v) = v

\* the list match after the loop over self.flags.items()
RECURSIVE MatchOf(_, _)
MatchOf(items, num) ==
  IF items = << >> THEN << >>
  ELSE (IF Matches(num, items[1][2]) THEN << items[1][1] >> ELSE << >>)
         \o MatchOf(Tail(items), num)

\* "|".join(match)
RECURSIVE JoinBar(_)
JoinBar(match) ==
  IF match = << >> THEN << >>
  ELSE IF Len(match) = 1 THEN match[1]
  ELSE match[1] \o << "|" >> \o JoinBar(Tail(match))

FlagsInit ==
  /\ t_lines \in UNION { [ 1..n -> LineChoices ] : n \in 0..MaxLines }
  /\ t_num \in 0..(Pow2(NumBits) - 1)
  /\ t_n = 0
  /\ t_flags = << >>
  /\ t_pc = "init"
  /\ t_result = << >>
  /\ t_error = "none"
  /\ GridIdle
  /\ CatIdle
  /\ HistIdle
  /\ LegacyIdle

\* one pass of "for line in fd" of the constructor
FlagsReadLine ==
  /\ t_pc = "init"
  /\ t_n < Len(t_lines)
  /\ t_n' = t_n + 1
  /\ LET line == t_lines[t_n + 1]
     IN  IF Len(line) = 0
         THEN UNCHANGED << t_flags, t_pc, t_error >>
         ELSE IF StartsWith(line[1], TokComment)
         THEN UNCHANGED << t_flags, t_pc, t_error >>
         ELSE IF Len(line) < 2
         THEN /\ t_pc' = "failed"
              /\ t_error' = "IndexError"
              /\ UNCHANGED t_flags
         ELSE IF StartsWith(line[2], << "T", "T", "T", "P" >>)
         THEN UNCHANGED << t_flags, t_pc, t_error >>
         ELSE IF Len(line) < 3
         THEN /\ t_pc' = "failed"
              /\ t_error' = "IndexError"
              /\ UNCHANGED t_flags
         ELSE IF ~IsIntLiteral(SubSeq(line[3], 5, Len(line[3])))
         THEN /\ t_pc' = "failed"
              /\ t_error' = "ValueError"
              /\ UNCHANGED t_flags
         ELSE /\ t_flags' = DictSet(t_flags, line[2],
                                    Pow2(IntOf(SubSeq(line[3], 5, Len(line[3])))))
              /\ UNCHANGED << t_pc, t_error >>
  /\ UNCHANGED << t_lines, t_num, t_result >>
  /\ UNCHANGED << gvars, cvars, hvars, lvars >>

\* the file is exhausted: the object is constructed
FlagsConstructed ==
  /\ t_pc = "init"
  /\ t_n = Len(t_lines)
  /\ t_pc' = "ready"
  /\ UNCHANGED << t_lines, t_n, t_flags, t_num, t_result, t_error >>
  /\ UNCHANGED << gvars, cvars, hvars, lvars >>

\* parse(num)
FlagsParse ==
  /\ t_pc = "ready"
  /\ t_result' = JoinBar(MatchOf(t_flags, t_num))
  /\ t_pc' = "parsed"
  /\ UNCHANGED << t_lines, t_n, t_flags, t_num, t_error >>
  /\ UNCHANGED << gvars, cvars, hvars, lvars >>

FlagsNext ==
  \/ FlagsReadLine
  \/ FlagsConstructed
  \/ FlagsParse

SpecFlags == FlagsInit /\ [][FlagsNext]_vars

(***************************************************************************)
(* read_density_grid of the legacy package ssimpl/nbody/io.py.             *)
(***************************************************************************)
\* ident != 'rho_r_dark': the whole stored identifier, its trailing NUL
\* bytes dropped, is compared
LegacyDiffers(ident) == ident # RhoRDark

\* (ident != 'rho_r_dark') and (i_grid < n_grids)
LegacyGoesOn == LegacyDiffers(l_ident) /\ l_i_grid < l_n_grids

LegacyInit ==
  /\ l_dims \in Dims
  /\ l_ids \in IdentSeqs
  /\ \E ngrids \in { Len(l_ids) - 1, Len(l_ids), Len(l_ids) + 1 } :
       /\ ngrids >= 0
       /\ l_file = EncodeGridFile(l_dims, ngrids, l_ids)
  /\ l_pc = "start"
  /\ l_pos = 0
  /\ l_n_cell = << >>
  /\ l_n_grids = 0
  /\ l_ident = << >>
  /\ l_grid = << >>
  /\ l_i_grid = 0
  /\ l_gridReads = 0
  /\ l_error = "none"
  /\ l_result = << >>
  /\ GridIdle
  /\ CatIdle
  /\ HistIdle
  /\ FlagsIdle

LegacyFail(err) ==
  /\ l_pc' = "failed"
  /\ l_error' = err
  /\ l_result' = Raised(l_grid)

\* lines 25-30: the file is opened and the header is read
LegacyReadHeader ==
  /\ l_pc = "start"
  /\ LET flen == Len(l_file)
         cells == FromFile(l_file, 0, Int32Bytes, NAxes)
         p1 == PosAfterRead(flen, 0, Int32Bytes, NAxes)
         p2 == PosAfterRead(flen, p1, Float64Bytes, NAxes)
         ng == FromFile(l_file, p2, Int32Bytes, 1)
         p3 == PosAfterRead(flen, p2, Int32Bytes, 1)
         ma == FromFileCount(flen, p3, Int32Bytes, 1)
         p4 == PosAfterRead(flen, p3, Int32Bytes, 1)
     IN  /\ l_n_cell' = [ i \in 1..Len(cells) |-> DecodeI32(cells[i]) ]
         /\ IF Len(ng) = 0 \/ ma = 0
            THEN \* [0] of an empty array
                 /\ LegacyFail("IndexError")
                 /\ l_pos' = (IF Len(ng) = 0 THEN p3 ELSE p4)
                 /\ UNCHANGED l_n_grids
            ELSE /\ l_n_grids' = DecodeI32(ng[1])
                 /\ l_pos' = p4
                 /\ l_pc' = "first"
                 /\ UNCHANGED << l_error, l_result >>
  /\ UNCHANGED << l_dims, l_ids, l_file, l_ident, l_grid, l_i_grid, l_gridReads >>
  /\ UNCHANGED << gvars, cvars, hvars, tvars >>

\* an identifier and the grid behind it are read (lines 33 and 36, and lines
\* 41 and 42)
LegacyReadGrid ==
  LET idents == FromFile(l_file, l_pos, IdentBytes, 1)
      p1 == PosAfterRead(Len(l_file), l_pos, IdentBytes, 1)
      count == Product(l_n_cell)
      items == FromFile(l_file, p1, Int32Bytes, count)
  IN  IF Len(idents) = 0 \/ l_n_cell = << >>
      THEN \* [0] or cumprod()[-1] of an empty array
           /\ LegacyFail("IndexError")
           /\ l_pos' = p1
           /\ UNCHANGED << l_ident, l_grid, l_gridReads, l_i_grid >>
      ELSE /\ l_ident' = StripNul(idents[1])
           /\ l_grid' = [ i \in 1..Len(items) |-> DecodeLE32(items[i]) ]
           /\ l_pos' = PosAfterRead(Len(l_file), p1, Int32Bytes, count)
           /\ l_gridReads' = l_gridReads + 1
           /\ l_i_grid' = 1
           /\ l_pc' = "loop"
           /\ UNCHANGED << l_error, l_result >>

\* lines 33-39: the first grid is read and i_grid is set
LegacyFirstGrid ==
  /\ l_pc = "first"
  /\ LegacyReadGrid
  /\ UNCHANGED << l_dims, l_ids, l_file, l_n_cell, l_n_grids >>
  /\ UNCHANGED << gvars, cvars, hvars, tvars >>

\* lines 40-42: one turn of the loop; i_grid stays as it is
LegacyNextGrid ==
  /\ l_pc = "loop"
  /\ LegacyGoesOn
  /\ LegacyReadGrid
  /\ UNCHANGED << l_dims, l_ids, l_file, l_n_cell, l_n_grids >>
  /\ UNCHANGED << gvars, cvars, hvars, tvars >>

\* lines 44-48: the loop is over; KeyError, or the grid is shaped and returned
LegacyReturn ==
  /\ l_pc = "loop"
  /\ ~LegacyGoesOn
  /\ IF LegacyDiffers(l_ident)
     THEN LegacyFail("KeyError")
     ELSE IF ~ShapeFits(l_grid, l_n_cell)
     THEN LegacyFail("ValueError")
     ELSE /\ l_result' = [ x \in Indices(ResolveShape(l_grid, l_n_cell)) |->
                             ViewElement(l_grid,
                                         FlatIndex(ResolveShape(l_grid, l_n_cell),
                                                   x[1], x[2], x[3])) ]
          /\ l_pc' = "done"
          /\ UNCHANGED l_error
  /\ UNCHANGED << l_dims, l_ids, l_file, l_pos, l_n_cell, l_n_grids, l_ident, l_grid,
                  l_i_grid, l_gridReads >>
  /\ UNCHANGED << gvars, cvars, hvars, tvars >>

LegacyNext ==
  \/ LegacyReadHeader
  \/ LegacyFirstGrid
  \/ LegacyNextGrid
  \/ LegacyReturn

SpecLegacy == LegacyInit /\ [][LegacyNext]_vars

Init == GridInit \/ CatInit \/ HistInit \/ FlagsInit \/ LegacyInit
Next == GridNext \/ CatNext \/ HistNext \/ FlagsNext \/ LegacyNext
Spec == Init /\ [][Next]_vars

(***************************************************************************)
(* Properties of read_grid.                                                *)
(***************************************************************************)
\* the file is as the format says: the header's n_grids grids, all whole
ValidGridFile ==
  /\ g_ngrids = Len(g_ids)
  /\ g_file = EncodeGridFile(g_dims, g_ngrids, g_ids)

\* positions (from 1) of the stored grids whose identifier is the target's
TargetPositions ==
  IF g_name \in KnownGridNames
  THEN { g \in 1..Len(g_ids) : FirstChars(g_ids[g]) = NameToIdent(g_name) }
  ELSE { }

FirstTargetPosition == CHOOSE p \in TargetPositions : \A q \in TargetPositions : p <= q

\* C2: for a valid grid file in which the target identifier first occurs at
\* position p, read_grid performs exactly p identifier reads and p - 1 seeks,
\* then returns dims[0]*dims[1]*dims[2] values equal to the payload stored at
\* position p; it does not fail on the way.
C2_ReadsAndSeeksToTarget ==
  (ValidGridFile /\ TargetPositions # { }) =>
    LET p == FirstTargetPosition
    IN  /\ g_pc # "failed"
        /\ g_identReads <= p
        /\ g_seeks <= p - 1
        /\ g_pc \in { "payload", "reshape", "done" } =>
             g_identReads = p /\ g_seeks = p - 1
        /\ g_pc = "done" =>
             /\ g_payloadReads = 1
             /\ Len(g_grid) = g_dims[1] * g_dims[2] * g_dims[3]
             /\ g_grid = Payload(p, Product(g_dims))

\* the target is the second grid of a valid file and has been returned
C2_Witness ==
  /\ ValidGridFile
  /\ TargetPositions # { }
  /\ FirstTargetPosition = 2
  /\ g_pc = "done"
  /\ g_identReads = 2
  /\ g_seeks = 1
  /\ Product(g_dims) > 1

\* C3: when the target identifier is absent from a file whose header says
\* n_grids = k, read_grid fails with GridNotFound after exactly k identifier
\* reads: never more than k reads, and no failure before the k-th.
C3_GridNotFoundAfterAllEntries ==
  (ValidGridFile /\ g_ngrids >= 1 /\ g_name \in KnownGridNames
     /\ TargetPositions = { }) =>
    /\ g_identReads <= g_ngrids
    /\ g_pc = "failed" => (g_error = "GridNotFound" /\ g_identReads = g_ngrids)
    /\ g_pc # "done"

\* C4: with a grid_name outside the four known names read_grid fails with
\* UnknownGridName and the file is never opened.
C4_UnknownNameNeverOpensFile ==
  g_name \notin KnownGridNames =>
    /\ g_opens = 0
    /\ ~g_open
    /\ g_pc = "failed" => g_error = "UnknownGridName"

TruncationErrors == { "IndexError", "ValueError" }

GridAt(i, j, k) == g_result[<< i, j, k >>]

\* C9: for a file whose header states the dims its grids were written with,
\* the returned array has the header's dims as its shape, and its element
\* (i, j, k) is the value at flat index (i*dims[1] + j)*dims[2] + k of the
\* matched grid's payload, unchanged.
C9_RowMajorShape ==
  (g_pc = "done" /\ g_n_cell = g_dims) =>
    /\ g_shape = g_dims
    /\ \A i \in 0..(g_dims[1] - 1), j \in 0..(g_dims[2] - 1), k \in 0..(g_dims[3] - 1) :
         GridAt(i, j, k)
           = DecodeLE32(SubSeq(g_file,
               HeaderBytes + (g_identReads - 1) * GridBytes(g_dims) + IdentBytes
                 + Int32Bytes * ((i * g_dims[2] + j) * g_dims[3] + k) + 1,
               HeaderBytes + (g_identReads - 1) * GridBytes(g_dims) + IdentBytes
                 + Int32Bytes * ((i * g_dims[2] + j) * g_dims[3] + k) + Int32Bytes))
    /\ \A i \in 0..(g_dims[1] - 1), j \in 0..(g_dims[2] - 1), k \in 0..(g_dims[3] - 1) :
         GridAt(i, j, k)
           = CellValue(FirstTargetPosition, (i * g_dims[2] + j) * g_dims[3] + k)

\* a 2 x 1 x 2 grid stored second in its file has been returned
C9_Witness ==
  /\ g_pc = "done"
  /\ g_dims[1] = 2
  /\ g_dims[2] = 1
  /\ g_dims[3] = 2
  /\ g_identReads = 2

(***************************************************************************)
(* Properties of read_halo_catalog.                                        *)
(***************************************************************************)
\* the integer after the last "." of each file name, read off the name
SuffixValue(nm) ==
  CASE nm = NameC1 -> 1 [] nm = NameC01 -> 1 [] nm = NameC2 -> 2 [] nm = NameC10 -> 10

ArgIsDirectory == c_arg.type = "str" /\ IsDir(c_arg.path)

\* every shard is whole and the counts of the shards add up to the
\* N_halos_total every header states
ValidCatalogSet ==
  /\ \A nm \in fs_dir :
       /\ Len(fs_files[nm].hdr) = 1
       /\ fs_files[nm].frag = 0
  /\ \A nm \in fs_dir :
       /\ Len(fs_files[nm].recs) = fs_files[nm].hdr[1].N_halos_file
       /\ fs_files[nm].hdr[1].N_halos_total
            = SumOver(fs_dir, [ x \in fs_dir |-> fs_files[x].hdr[1].N_halos_file ])

\* the records of the shards of a listing, one shard after the other, with
\* the fields the caller sees
ShardRecords(l) ==
  Concat([ i \in 1..Len(l) |->
             [ r \in 1..Len(fs_files[l[i]].recs) |-> DropPadding(fs_files[l[i]].recs[r]) ] ])

\* the listings of the directory in ascending order of the numeric suffix
AscendingListings ==
  { l \in Listings(fs_dir) :
      \A i, j \in 1..Len(l) : i < j => SuffixValue(l[i]) <= SuffixValue(l[j]) }

\* C1: for a valid catalog set given as a directory, whatever the order of
\* the directory listing, read_halo_catalog does not fail and returns the
\* records of all shards, shard after shard in ascending order of the numeric
\* suffix, each shard's records in their on-disk order.
C1_DirectoryConcatenation ==
  /\ c_pc = "failed" => ~(ArgIsDirectory /\ fs_dir # { } /\ ValidCatalogSet)
  /\ (c_pc = "done" /\ ArgIsDirectory /\ fs_dir # { } /\ ValidCatalogSet) =>
       /\ \E l \in AscendingListings :
            /\ c_loc = [ i \in 1..Len(l) |-> Join(DirPath, l[i]) ]
            /\ c_result = ShardRecords(l)
       /\ Len(c_result) = fs_files[EntryOf(c_loc[1])].hdr[1].N_halos_total

\* three shards c.1, c.2, c.10 holding 2, 1 and 2 halos were read from their
\* directory into an array of 5 records
C1_Witness ==
  /\ ArgIsDirectory
  /\ ValidCatalogSet
  /\ fs_dir = { NameC1, NameC2, NameC10 }
  /\ Len(fs_files[NameC1].recs) = 2
  /\ Len(fs_files[NameC2].recs) = 1
  /\ Len(fs_files[NameC10].recs) = 2
  /\ c_pc = "done"
  /\ Len(c_result) = 5

\* the input yields no shard file: an empty path list or an empty directory
NoShardFiles ==
  \/ c_arg.type = "list" /\ c_arg.paths = << >>
  \/ ArgIsDirectory /\ fs_dir = { }

C7_ShortShardFails ==
  c_short =>
    /\ c_pc # "done"
    /\ c_pc = "failed" => c_error \in TruncationErrors

\* C8: the shards of a directory are processed in the order of the integer
\* after the last "." of their names: catalog_loc is in that order once
\* sorted, and no file is opened after one with a larger numeric suffix.
C8_NumericSuffixOrder ==
  ArgIsDirectory =>
    /\ c_pc \in { "first", "loop", "header", "records", "done" } =>
         \A i, j \in 1..Len(c_loc) :
           i < j => SuffixValue(EntryOf(c_loc[i])) <= SuffixValue(EntryOf(c_loc[j]))
    /\ \A i, j \in 1..Len(c_reads) :
         i < j => SuffixValue(EntryOf(c_reads[i])) <= SuffixValue(EntryOf(c_reads[j]))

\* the directory of c.2, c.10 and c.1 was read: the files were opened as
\* c.1 (for the first header), c.1, c.2, c.10
C8_Witness ==
  /\ ArgIsDirectory
  /\ fs_dir = { NameC1, NameC2, NameC10 }
  /\ c_pc = "done"
  /\ c_reads = << Join(DirPath, NameC1), Join(DirPath, NameC1),
                  Join(DirPath, NameC2), Join(DirPath, NameC10) >>

\* C10: the returned array is as long as the N_halos_total of the header of
\* the first shard in processing order says, whatever the N_halos_total of
\* the other shards.
C10_LengthFromFirstHeader ==
  /\ c_pc \in { "loop", "header", "records", "done" } =>
       Len(c_halo) = fs_files[EntryOf(c_loc[1])].hdr[1].N_halos_total
  /\ c_pc = "done" =>
       Len(c_result) = fs_files[EntryOf(c_loc[1])].hdr[1].N_halos_total

\* an array was returned although a later shard states another N_halos_total
C10_Witness ==
  /\ c_pc = "done"
  /\ Len(c_loc) >= 2
  /\ Len(c_result) >= 2
  /\ c_result = ShardRecords([ i \in 1..Len(c_loc) |-> EntryOf(c_loc[i]) ])
  /\ \E i \in 2..Len(c_loc) :
       fs_files[EntryOf(c_loc[i])].hdr[1].N_halos_total # Len(c_result)

\* the fields a caller is to see: all of the halo record but its padding
CallerFields ==
  { "id_MBP", "M_vir", "n_particles", "position_COM", "position_MBP",
    "velocity_COM", "velocity_MBP", "R_vir", "R_halo", "R_max", "V_max",
    "sigma_v", "spin", "q_triaxial", "s_triaxial", "shape_eigen_vectors" }

RECURSIVE SumSeq(_)
SumSeq(q) == IF q = << >> THEN 0 ELSE q[1] + SumSeq(Tail(q))

\* C11: every record of the returned array has every named halo field except
\* padding, and padding is not among its fields; the padding bytes are
\* consumed with each record, so after a whole shard of n records the file
\* position is the header plus n whole records, padding included, and each
\* field of each record read keeps its on-disk value.
C11_PaddingReadNotExposed ==
  /\ c_pc = "done" =>
       \A i \in 1..Len(c_result) :
         /\ DOMAIN c_result[i] = CallerFields
         /\ "padding" \notin DOMAIN c_result[i]
  /\ (c_pc = "loop" /\ c_i > 1 /\ ~c_short) =>
       LET f == fs_files[EntryOf(c_loc[c_i - 1])]
       IN  /\ c_fdpos = CatalogHeaderBytes + c_n_halos_file * SumSeq(HaloFieldBytes)
           /\ \A r \in 1..c_n_halos_file :
                 (c_n_halos - c_n_halos_file + r) \in 1..Len(c_halo) =>
                   \A x \in CallerFields :
                     c_halo[c_n_halos - c_n_halos_file + r][x] = f.recs[r][x]

\* two shards of two records each were read and returned without padding
C11_Witness ==
  /\ c_pc = "done"
  /\ ~c_short
  /\ Len(c_loc) = 2
  /\ Len(c_result) = 4
  /\ c_fdpos = CatalogHeaderBytes + 2 * HaloRecordBytes
  /\ c_result[4].id_MBP = fs_files[EntryOf(c_loc[2])].recs[2].id_MBP
  /\ DOMAIN c_result[4] = CallerFields

\* the sum of the N_halos_file of the shards read, in processing order
CountsRead ==
  SumSeq([ i \in 1..Len(c_loc) |-> fs_files[EntryOf(c_loc[i])].hdr[1].N_halos_file ])

\* C12: when the counts of the shards read sum to less than N_halos_total,
\* every record of the returned array at an index at or beyond that sum holds
\* the zero value.
C12_UnwrittenTailIsZero ==
  (c_pc = "done" /\ ~c_short /\ CountsRead < Len(c_result)) =>
    \A i \in (CountsRead + 1)..Len(c_result) :
      \A x \in DOMAIN c_result[i] : c_result[i][x] = 0

\* every shard file is whole: a header, and the records the header announces
WellFormedShards ==
  \A nm \in fs_dir :
    /\ Len(fs_files[nm].hdr) = 1
    /\ fs_files[nm].frag = 0
    /\ Len(fs_files[nm].recs) = fs_files[nm].hdr[1].N_halos_file

\* no header states fewer halos than the shards hold together
TotalsCoverCounts ==
  \A nm \in fs_dir :
    fs_files[nm].hdr[1].N_halos_total
      >= SumOver(fs_dir, [ x \in fs_dir |-> fs_files[x].hdr[1].N_halos_file ])

\* every path read as a shard names a file: the list passed has no directory
\* behind a file
ShardPathsAreFiles ==
  c_arg.type = "list" =>
    \A i \in 2..Len(c_arg.paths) : IsDir(c_arg.paths[i]) => IsDir(c_arg.paths[1])

\* C13: the counts of the shards are not checked against N_halos_total: with
\* well-formed shards whose counts sum to less than the N_halos_total of the
\* first header the call raises no error, and it returns an array of
\* N_halos_total records that begins with the records of the shards. The
\* paths read as shards are files.
C13_SumNotChecked ==
  /\ (c_pc = "failed" \/ c_error # "none") =>
       ~(fs_dir # { } /\ WellFormedShards /\ TotalsCoverCounts /\ ShardPathsAreFiles)
  /\ (/\ c_pc = "done"
      /\ fs_dir # { } /\ WellFormedShards /\ TotalsCoverCounts
      /\ CountsRead < fs_files[EntryOf(c_loc[1])].hdr[1].N_halos_total) =>
         /\ Len(c_result) = fs_files[EntryOf(c_loc[1])].hdr[1].N_halos_total
         /\ SubSeq(c_result, 1, CountsRead)
              = ShardRecords([ i \in 1..Len(c_loc) |-> EntryOf(c_loc[i]) ])

\* two well-formed shards of one halo each were read into an array of three
C13_Witness ==
  /\ WellFormedShards
  /\ TotalsCoverCounts
  /\ c_pc = "done"
  /\ c_error = "none"
  /\ Len(c_loc) = 2
  /\ CountsRead = 2
  /\ Len(c_result) = 3

(***************************************************************************)
(* Properties of both readers.                                             *)
(***************************************************************************)
\* C14: there is no partial success: a call of read_grid or read_halo_catalog
\* that has failed hands no array to its caller, whatever it had read into
\* its buffer; an array is handed over only by a call that returned.
C14_NoPartialSuccess ==
  /\ g_pc = "failed" => g_result = << >>
  /\ c_pc = "failed" => c_result = << >>
  /\ g_result # << >> => g_pc = "done"
  /\ c_result # << >> => c_pc = "done"

\* read_halo_catalog has failed on its second shard after the records of the
\* first were written to the buffer
C14_Witness ==
  /\ c_pc = "failed"
  /\ c_i = 2
  /\ c_n_halos >= 1
  /\ Len(c_halo) >= 2
  /\ c_halo[1] # Uninitialized
  /\ c_result = << >>

\* C15: read_grid releases its file handle on every exit path: whenever the
\* call has returned or failed the handle is closed, and it is opened once
\* at most.
C15_GridHandleReleased ==
  /\ g_pc \in { "reshape", "done", "failed" } => ~g_open
  /\ g_pc \in { "header", "ident", "seek", "payload" } => g_open
  /\ g_opens <= 1

\* read_grid ran off the end of the file looking for its grid and the handle
\* is closed
C15_Witness ==
  /\ g_pc = "failed"
  /\ g_error = "IndexError"
  /\ g_opens = 1
  /\ g_identReads = 2
  /\ g_seeks = 1
  /\ ~g_open

\* C16: in read_halo_catalog at most one shard file handle is open at any
\* time: none outside the reading of a shard (before the first shard,
\* between two shards, after the return or the failure), and the handle of
\* the shard being read while it is read.
C16_OneShardHandle ==
  /\ Len(c_handles) <= 1
  /\ c_pc \in { "start", "isdir", "sort", "first", "loop", "done", "failed" } =>
       c_handles = << >>
  /\ c_pc \in { "header", "records" } => c_handles = << c_fd >>

\* the header read of the third file opened (the first header, the first
\* shard, the second shard) failed and no handle is left open
C16_Witness ==
  /\ c_pc = "failed"
  /\ c_error = "IndexError"
  /\ Len(c_reads) = 3
  /\ c_i = 2
  /\ c_handles = << >>

\* where a call of read_grid is on Unopened -> HeaderRead -> Scanning ->
\* Done | Failed: the header is read once the position is just behind it and
\* no identifier was read yet
GridPhase ==
  CASE g_pc = "idle" -> "Idle"
    [] g_pc \in { "start", "open", "header" } -> "Unopened"
    [] g_pc = "ident" /\ g_identReads = 0 -> "HeaderRead"
    [] g_pc = "done" -> "Done"
    [] g_pc = "failed" -> "Failed"
    [] OTHER -> "Scanning"

\* where a call of read_halo_catalog is on Unopened -> HeaderRead -> Copying
\* -> Done | Failed
CatPhase ==
  CASE c_pc = "idle" -> "Idle"
    [] c_pc \in { "start", "isdir", "sort", "first" } -> "Unopened"
    [] c_pc = "loop" /\ c_i = 1 -> "HeaderRead"
    [] c_pc = "done" -> "Done"
    [] c_pc = "failed" -> "Failed"
    [] OTHER -> "Copying"

\* the moves of the state machine; a failure can come from any state that is
\* not final
PhaseMoves ==
  { << "Unopened", "HeaderRead" >>, << "HeaderRead", "Scanning" >>,
    << "HeaderRead", "Copying" >>, << "Scanning", "Done" >>, << "Copying", "Done" >>,
    << "Unopened", "Failed" >>, << "HeaderRead", "Failed" >>,
    << "Scanning", "Failed" >>, << "Copying", "Failed" >> }

\* identifiers are read, payloads skipped or read, and records copied only
\* with the header's values in hand; the position is behind the header unless
\* a negative cell count has seeked backwards
ScanOnlyAfterHeader ==
  /\ (g_identReads > 0 \/ g_seeks > 0 \/ g_payloadReads > 0) =>
       /\ GridPhase \in { "Scanning", "Done", "Failed" }
       /\ Len(g_n_cell) = 3
       /\ Product(g_n_cell) >= 0 => g_pos >= 44
  /\ (c_pc \in { "header", "records" } \/ c_n_halos > 0
        \/ \E i \in 1..Len(c_halo) : c_halo[i] # Uninitialized) =>
       /\ CatPhase \in { "Copying", "Done", "Failed" }
       /\ Len(c_reads) >= 1
       /\ c_reads[1] = c_loc[1]

\* a step changes nothing of a call that is Done or Failed, and a change of
\* state is one of the moves
PhaseStep ==
  /\ GridPhase \in { "Done", "Failed" } => gvars' = gvars
  /\ CatPhase \in { "Done", "Failed" } => cvars' = cvars
  /\ GridPhase' # GridPhase => << GridPhase, GridPhase' >> \in PhaseMoves
  /\ CatPhase' # CatPhase => << CatPhase, CatPhase' >> \in PhaseMoves

\* C17: each reader call moves only along Unopened -> HeaderRead -> Scanning
\* (grid) or Copying (catalog) -> Done | Failed: nothing is scanned or copied
\* before the header has been read, and nothing happens after Done or Failed.
C17_StateMachine == [](ScanOnlyAfterHeader) /\ [][PhaseStep]_vars

\* read_halo_catalog returned after copying two shards
C17_Witness ==
  /\ CatPhase = "Done"
  /\ c_i = 3
  /\ c_n_halos = 3
  /\ Len(c_reads) = 3

\* an error has been raised exactly when the call has failed, and a catalog
\* call that failed on shard c_i has opened no file after it (the opens are
\* the one for the first header and one per shard up to c_i)
FailedOnFirstError ==
  /\ g_error # "none" <=> g_pc = "failed"
  /\ c_error # "none" <=> c_pc = "failed"
  /\ c_pc = "failed" => Len(c_reads) <= c_i + 1
  /\ g_pc = "failed" => g_identReads <= g_seeks + 1

\* once an error was raised nothing more is opened, read or seeked over,
\* and the error stays the one raised first
NothingAfterError ==
  /\ g_error # "none" =>
       /\ g_error' = g_error
       /\ << g_opens, g_identReads, g_seeks, g_payloadReads, g_pos >>'
            = << g_opens, g_identReads, g_seeks, g_payloadReads, g_pos >>
  /\ c_error # "none" =>
       /\ c_error' = c_error
       /\ << c_reads, c_handles, c_fdpos, c_i, c_halo >>'
            = << c_reads, c_handles, c_fdpos, c_i, c_halo >>

\* C18: the readers are fail-fast: once a read of a grid entry or of a shard
\* has raised an error the call has failed with that error, and no later
\* grid entry or shard is opened, read or seeked over.
C18_FailFast == [](FailedOnFirstError) /\ [][NothingAfterError]_vars

\* the read of the first of several shards failed and the others were never
\* opened
C18_Witness ==
  /\ c_pc = "failed"
  /\ c_i = 1
  /\ Len(c_loc) >= 2
  /\ Len(c_reads) = 2
  /\ c_handles = << >>

(***************************************************************************)
(* The input forms of read_halo_catalog.                                   *)
(***************************************************************************)
\* the explicit lists of the entries of the directory in ascending order of
\* the numeric suffix
AscendingLists ==
  { l \in Seq({ Join(DirPath, nm) : nm \in fs_dir }) :
      /\ Len(l) = Cardinality(fs_dir)
      /\ { l[i] : i \in 1..Len(l) } = { Join(DirPath, nm) : nm \in fs_dir }
      /\ \A i, j \in 1..Len(l) :
           i < j => SuffixValue(EntryOf(l[i])) <= SuffixValue(EntryOf(l[j])) }

\* C19: the three input forms are equivalent: once the argument is
\* normalised, a directory has become an explicit list of its entries in
\* ascending order of the numeric suffix, a single file path the one-element
\* list of that path, and a list is itself; what the call then returns or
\* raises is what the call on that explicit list returns or raises.
C19_InputFormsEquivalent ==
  /\ c_pc \in { "first", "loop", "header", "records", "done" } =>
       /\ ArgIsDirectory => c_loc \in AscendingLists
       /\ (c_arg.type = "str" /\ ~IsDir(c_arg.path)) => c_loc = << c_arg.path >>
       /\ (c_arg.type = "list" /\ \A i \in 1..Len(c_arg.paths) : ~IsDir(c_arg.paths[i])) =>
            c_loc = c_arg.paths
  /\ c_pc \in { "done", "failed" } =>
       LET call == ReadList(c_loc)
       IN  /\ c_pc = "done" =>
                /\ call.error = "none"
                /\ c_result \in call.results
           /\ c_pc = "failed" => call.error = c_error

\* the directory of c.1, c.2 and c.10 was read and gave what the list
\* d/c.1, d/c.2, d/c.10 gives
C19_Witness ==
  /\ ArgIsDirectory
  /\ c_pc = "done"
  /\ c_loc = << Join(DirPath, NameC1), Join(DirPath, NameC2), Join(DirPath, NameC10) >>
  /\ Len(c_result) = 3
  /\ c_result \in ReadList(<< Join(DirPath, NameC1), Join(DirPath, NameC2),
                               Join(DirPath, NameC10) >>).results

(***************************************************************************)
(* Properties of galaxy_history.                                           *)
(***************************************************************************)
\* the index at snapshot s of the galaxy reached from the target by
\* following the descendant indices, -1 once there is none
RECURSIVE FutureIndex(_)
FutureIndex(s) ==
  IF s = h_snapshot THEN h_start_ind
  ELSE IF FutureIndex(s - 1) = -1 THEN -1
  ELSE h_desc[s - 1][FutureIndex(s - 1)]

\* at snapshot s the galaxy is still there: it has a descendant, and it is
\* the first progenitor of that descendant
RemainsAt(s) ==
  /\ FutureIndex(s) # -1
  /\ h_fp[s][FutureIndex(s)] = FutureIndex(s - 1)

\* C20: whenever galaxy_history, called with future_snapshot > snapshot,
\* returns merged_snapshot = -1, the galaxy remained until future_snapshot:
\* at every snapshot s with snapshot < s <= future_snapshot it has a
\* descendant whose first progenitor is the galaxy itself.
C20_UnmergedGalaxyRemains ==
  (h_pc = "done" /\ h_future_arg > h_snapshot /\ h_result.merged_snapshot = -1) =>
    \A s \in (h_snapshot + 1)..h_future_arg : RemainsAt(s)

\* the index at snapshot s of the galaxy reached from the target by
\* following the first progenitor indices, -1 once there is none
RECURSIVE PastIndex(_)
PastIndex(s) ==
  IF s = h_snapshot THEN h_start_ind
  ELSE IF PastIndex(s + 1) = -1 THEN -1
  ELSE h_fp[s + 1][PastIndex(s + 1)]

\* C26: once the loop over the earlier snapshots is over, history[snapshot]
\* is the target and, for every snap below snapshot, history[snap] is the
\* galaxy reached by following the first progenitor indices from the target,
\* or all zero when the line ended above snap; no galaxy is read at the
\* index -1.
C26_ProgenitorTrace ==
  /\ (h_pc \in { "future", "descendants", "return", "done" } \/ h_error = "Warning") =>
       \A s \in 0..h_snapshot :
         h_history[s + 1] = IF PastIndex(s) # -1 THEN ReadGals(s)[PastIndex(s)] ELSE ZeroGal
  /\ (h_pc = "progenitors" /\ h_snap >= 0) =>
       /\ h_ind # -1
       /\ h_ind = PastIndex(h_snap)

\* the history of a galaxy of snapshot 2 was returned: its first progenitor
\* at snapshot 1 has none itself, and history[0] is all zero
C26_Witness ==
  /\ h_pc = "done"
  /\ h_snapshot = 2
  /\ PastIndex(1) # -1
  /\ PastIndex(0) = -1
  /\ h_history[1] = ZeroGal
  /\ h_history[2] = ReadGals(1)[PastIndex(1)]
  /\ h_history[3] = ReadGals(2)[h_start_ind]

(***************************************************************************)
(* The running write offset of read_halo_catalog.                          *)
(***************************************************************************)
\* N_halos_file of the j-th shard in processing order
CountOf(j) == fs_files[EntryOf(c_loc[j])].hdr[1].N_halos_file

\* the sum of the counts of the shards before the j-th
OffsetBefore(j) == SumSeq([ x \in 1..(j - 1) |-> CountOf(x) ])

\* the shards copied so far
Copied == 1..(c_i - 1)

\* C23: the write offset starts at 0 and before shard i is copied it is the
\* sum of the counts of the shards before it; once shard i is copied its
\* records are at the indices [offset, offset + n_i) of the buffer, and the
\* records of every shard copied before are still where they were written.
C23_OffsetsAndRanges ==
  (c_pc \in { "loop", "header", "records" } /\ c_i >= 1) =>
    /\ c_n_halos = OffsetBefore(c_i)
    /\ \A j \in Copied :
         \A r \in 1..Min(CountOf(j), Len(fs_files[EntryOf(c_loc[j])].recs)) :
           /\ OffsetBefore(j) + r <= Len(c_halo)
           /\ c_halo[OffsetBefore(j) + r] = fs_files[EntryOf(c_loc[j])].recs[r]

\* C29: when the counts of the shards sum to more than n_halos_total the
\* call does not return: no array is returned that lacks records of a shard.
C29_OverflowFails ==
  c_pc = "done" => CountsRead <= Len(c_result)

(***************************************************************************)
(* The order of directory entries with equal numeric suffix.               *)
(***************************************************************************)
\* place of an entry in a listing
PlaceIn(l, nm) == CHOOSE i \in 1..Len(l) : l[i] = nm

\* the sort step keeps entries of equal numeric suffix in the order of the
\* directory listing
StableSortStep ==
  (c_pc = "sort" /\ c_pc' = "first") =>
    \A i, j \in 1..Len(c_loc') :
      (i < j /\ SuffixValue(EntryOf(c_loc'[i])) = SuffixValue(EntryOf(c_loc'[j]))) =>
        PlaceIn(c_loc, EntryOf(c_loc'[i])) < PlaceIn(c_loc, EntryOf(c_loc'[j]))

\* C24: the directory sort is stable: two entries with the same numeric
\* suffix are processed in the relative order in which the directory listing
\* returned them.
C24_StableDirectorySort == [][StableSortStep]_vars

(***************************************************************************)
(* Properties of TreeFlags.parse.                                          *)
(***************************************************************************)
\* the pieces of a string between its "|" characters, none for the empty
\* string
RECURSIVE PiecesFrom(_, _)
PiecesFrom(cs, piece) ==
  IF cs = << >> THEN << piece >>
  ELSE IF cs[1] = "|" THEN << piece >> \o PiecesFrom(Tail(cs), << >>)
  ELSE PiecesFrom(Tail(cs), Append(piece, cs[1]))

Pieces(cs) == IF cs = << >> THEN << >> ELSE PiecesFrom(cs, << >>)

\* the bit of the flag value v is set in num
BitSet(num, v) == (num \div v) % 2 = 1

\* C21: parse(num) returns the "|"-joined names of exactly the flags whose
\* bit is set in num: every name between the bars is a flag of self.flags
\* whose bit is set, and every flag of self.flags whose bit is set is named
\* exactly once; the other flags are not named.
C21_ParseNamesSetFlags ==
  t_pc = "parsed" =>
    LET names == Pieces(t_result)
    IN  /\ \A i \in 1..Len(t_flags) :
             LET count == Cardinality({ j \in 1..Len(names) : names[j] = t_flags[i][1] })
             IN  count = IF BitSet(t_num, t_flags[i][2]) THEN 1 ELSE 0
        /\ \A j \in 1..Len(names) :
             \E i \in 1..Len(t_flags) : t_flags[i][1] = names[j]

\* A was defined as bit 0 and again as bit 1, B as bit 2; parse(6) gave "A|B"
C21_Witness ==
  /\ t_pc = "parsed"
  /\ t_flags = << << FlagA, 2 >>, << FlagB, 4 >> >>
  /\ t_num = 6
  /\ t_result = << "A", "|", "B" >>

(***************************************************************************)
(* Skipping of the grids that are not the target.                          *)
(***************************************************************************)
\* file position of the identifier of the g-th stored grid (from 1)
IdentStart(g) == HeaderBytes + (g - 1) * GridBytes(g_dims)

\* C22: in a file whose header states the dims its grids were written with,
\* the k-th identifier read starts at the identifier of the k-th grid, each
\* seek having gone forward 4*dims[0]*dims[1]*dims[2] bytes from the end of
\* the identifier before; every grid passed over has an identifier other
\* than the target's and none of its payload is read; the one payload read
\* starts behind the identifier of a grid whose identifier is the target's
\* and nothing but that payload is in the buffer.
C22_SkipWithoutReading ==
  g_n_cell = g_dims =>
    /\ \A k \in 1..Len(g_identAt) : g_identAt[k] = IdentStart(k)
    /\ g_pc = "ident" => g_pos = IdentStart(g_identReads + 1)
    /\ g_pc = "seek" => g_pos = IdentStart(g_identReads) + IdentBytes
    /\ g_seeks <= g_identReads
    /\ \A k \in 1..g_seeks :
         k <= Len(g_ids) => FirstChars(g_ids[k]) # g_ident
    /\ g_payloadReads <= 1
    /\ g_payloadReads = 0 => g_grid = << >>
    /\ g_payloadReads = 1 =>
         /\ g_seeks = g_identReads - 1
         /\ FirstChars(g_ids[g_identReads]) = g_ident
         /\ g_grid = [ c \in 1..Len(g_grid) |->
                         DecodeLE32(SubSeq(g_file,
                           IdentStart(g_identReads) + IdentBytes + Int32Bytes * (c - 1) + 1,
                           IdentStart(g_identReads) + IdentBytes + Int32Bytes * c)) ]
         /\ Len(g_grid) <= Product(g_dims)

\* the x velocity grid stored first was passed over by one seek and the
\* density grid stored second was read
C22_Witness ==
  /\ g_n_cell = g_dims
  /\ g_name = "density"
  /\ g_ids = << VxRDark, RhoRDark >>
  /\ g_identAt = << HeaderBytes, HeaderBytes + GridBytes(g_dims) >>
  /\ g_seeks = 1
  /\ g_payloadReads = 1
  /\ Len(g_grid) = Product(g_dims)
  /\ Product(g_dims) > 1
  /\ g_pc = "done"

(***************************************************************************)
(* The comparison of identifiers in read_grid.                             *)
(***************************************************************************)
\* where the identifier read last starts in the file
LastIdentAt == g_identAt[Len(g_identAt)]

\* the first 10 bytes of the identifier read last, as they are in the file
LastIdentHead == SubSeq(g_file, LastIdentAt + 1, LastIdentAt + IdentChars)

\* C25: the four grid names select four distinct identifiers of 10
\* characters, and the identifier read last matched (the payload is read
\* next) exactly when the first 10 bytes stored are the identifier of
\* grid_name, whatever bytes 11 to 32 are; else the grid is passed over.
C25_MatchOnFirstTenChars ==
  /\ \A a, b \in KnownGridNames : a # b => NameToIdent(a) # NameToIdent(b)
  /\ \A a \in KnownGridNames : Len(NameToIdent(a)) = IdentChars
  /\ g_pc \in { "seek", "payload" } =>
       ((g_pc = "payload") <=> (g_name \in KnownGridNames /\ LastIdentHead = NameToIdent(g_name)))

\* the density grid was asked for and the identifier read last, which
\* matched, is stored as "rho_r_dark_2"
C25_Witness ==
  /\ g_pc = "payload"
  /\ g_name = "density"
  /\ g_identReads = 2
  /\ SubSeq(g_file, LastIdentAt + 1, LastIdentAt + 12) = RhoRDarkLong

(***************************************************************************)
(* Termination of the scan of read_grid.                                   *)
(***************************************************************************)
\* an identifier read started where an earlier one of the call started: the
\* file does not change and the locals are as they were, so the loop is back
\* in a state it was in and goes round forever
ScanRepeats ==
  \E i, j \in 1..Len(g_identAt) : i < j /\ g_identAt[i] = g_identAt[j]

\* C28: read_grid terminates on every finite input file, whatever its header
\* values and contents: the scan loop is never back at a file position with
\* the locals it had there before.
C28_ScanTerminates == ~ScanRepeats

\* the scan is followed to its end, or until it is seen to go round
ScanFollowed ==
  (g_pc = "ident" /\ g_identReads = MaxIdentReads) => ScanRepeats

(***************************************************************************)
(* Properties of the legacy read_density_grid.                             *)
(***************************************************************************)
\* positions (from 1) of the stored grids whose identifier is rho_r_dark
LegacyDensityAt == { g \in 1..Len(l_ids) : l_ids[g] = RhoRDark }

\* C27: the legacy read_density_grid reads at most n_grids grids; when none
\* of the first n_grids stored identifiers is rho_r_dark it raises KeyError,
\* and otherwise it returns the payload of the rho_r_dark grid.
C27_LegacyBoundedScan ==
  l_pc \in { "loop", "done", "failed" } =>
    /\ l_gridReads <= Max(l_n_grids, 1)
    /\ (l_pc = "failed" /\ \A g \in LegacyDensityAt : g > l_n_grids) =>
         l_error = "KeyError"
    /\ (l_pc = "done") =>
         /\ LegacyDensityAt # { }
         /\ l_grid = Payload(l_gridReads, Product(l_dims))

(***************************************************************************)
(* Lists that hold a directory.                                            *)
(***************************************************************************)
\* the argument as a list
ArgList == IF c_arg.type = "str" THEN << c_arg.path >> ELSE c_arg.paths

\* the paths of the entries of the directory
EntryPaths == { Join(DirPath, nm) : nm \in fs_dir }

\* the paths opened: catalog_loc[0] for its header, then the shards in order
OpensOf(loc) == IF loc = << >> THEN << >> ELSE << loc[1] >> \o loc

\* C30: the first element of the path list alone decides whether a directory
\* is expanded. When it is a directory the list becomes the entries of that
\* directory, each opened once as a shard, and the other elements of the
\* argument are not looked at. When it is a file the list stays as passed:
\* no directory is listed, and a later element that is a directory is
\* opened as a shard file, which fails.
C30_FirstElementDecides ==
  (ArgList # << >> /\ c_pc \in { "first", "loop", "header", "records", "done", "failed" }) =>
    /\ IsDir(ArgList[1]) =>
         /\ c_dirname = ArgList[1]
         /\ (c_pc # "failed" \/ c_error # "ValueError") =>
              /\ c_loc \in AscendingLists
              /\ c_reads = SubSeq(OpensOf(c_loc), 1, Len(c_reads))
         /\ c_pc = "done" => c_reads = OpensOf(c_loc)
    /\ ~IsDir(ArgList[1]) =>
         /\ c_dirname = << >>
         /\ c_loc = ArgList
         /\ c_reads = SubSeq(OpensOf(ArgList), 1, Len(c_reads))
         /\ \A i \in 1..Len(c_reads) : ~IsDir(c_reads[i])
         /\ (\E i \in 1..Len(ArgList) : IsDir(ArgList[i])) => c_pc # "done"

\* the list of the directory and one of its two shard files was read: each
\* shard was opened once, after the first header
C30_Witness ==
  /\ c_arg.type = "list"
  /\ Len(c_arg.paths) = 2
  /\ IsDir(c_arg.paths[1])
  /\ c_arg.paths[2] \in EntryPaths
  /\ Cardinality(fs_dir) = 2
  /\ c_pc = "done"
  /\ c_reads = OpensOf(c_loc)
  /\ Len(c_result) >= 2

\* a directory behind a shard file was opened as a shard file
C30_DirectoryBehindFile ==
  /\ c_arg.type = "list"
  /\ Len(c_arg.paths) = 2
  /\ ~IsDir(c_arg.paths[1])
  /\ IsDir(c_arg.paths[2])
  /\ c_pc = "failed"
  /\ c_error = "IsADirectoryError"
  /\ c_dirname = << >>

=============================================================================
